---- MODULE Spec2Model ----
(***************************************************************************)
(* A model of bevy_histrion_proto: identifiers (FNV-1a 64 hashes of        *)
(* names), the per-type PrototypeRegistry with its event-emitting RegMut   *)
(* facade, and the prototypes document parser / asset loader.              *)
(***************************************************************************)
EXTENDS Integers, Sequences, FiniteSets, TLC

VARIABLES
    registry,   \* PrototypeRegistry<P>.prototypes : HashMap<Id<P>, P>
    events,     \* RegistryEvent<P> written and not yet read by the consumer
    ret,        \* the operation last entered and the value it returned
    type_registry,  \* AppTypeRegistry: the TypeIds with a registration
    prototype_type_registry, \* PrototypeTypeRegistry.internal : discriminant -> TypeId
    tasks,      \* the register_prototype call under way and, for every loader
                \* task of the IO task pool, the run of PrototypesAssetLoader::load
                \* it is in: its position, its document and what it made of it
    resources,  \* the resources of the plugin that are in the World
    panicked,   \* whether the main thread panicked: the process is gone
    running,    \* whether App::run was called: the systems run, the App is built
    registries, \* PrototypeRegistries: TypeId -> (id -> Prototype<D>)
    server,     \* the asset server: the load state of every path it was asked for
    dependencies, \* the asset server: the dependencies of every asset it stored
    assets,     \* Assets<PrototypesAsset>: asset id -> PrototypesAsset
    asset_events, \* AssetEvent<PrototypesAsset> sent and not yet read by the system
    loading_prototypes_handles, \* LoadingPrototypesHandles: the asset ids held
    log,        \* the diagnostics written with error! and warn!
    schemas,    \* PrototypesSchemas { prototypes, refs }
    schema_log  \* the refs.insert calls of the last register_prototype

vars == <<registry, events, ret, type_registry, prototype_type_registry, tasks,
          resources, panicked, running, registries, server, dependencies, assets,
          asset_events, loading_prototypes_handles, log, schemas, schema_log>>
regVars == <<registry, events, ret>>
loadVars == <<type_registry, prototype_type_registry, tasks>>
appVars == <<resources, panicked, running, registries, server, dependencies, assets,
             asset_events, loading_prototypes_handles, log>>
schemaVars == <<schemas, schema_log>>

-----------------------------------------------------------------------------
(* Bounds of the model.                                                    *)

\* RegMut operations are taken only while fewer than MaxPending events wait
\* for the consumer.
MaxPending == 1

\* Longest list document made of every element; the lists of a record
\* between two swords are longer.
MaxDocLen == 2

-----------------------------------------------------------------------------
(* 64-bit unsigned integers as 8 little-endian limbs of 8 bits, so that    *)
(* wrapping arithmetic keeps its width.                                    *)

RECURSIVE BitXor(_, _, _)
BitXor(a, b, n) ==
    IF n = 0 THEN 0
    ELSE (((a % 2) + (b % 2)) % 2) + 2 * BitXor(a \div 2, b \div 2, n - 1)

\* hash ^ (byte as u64): only the lowest limb changes.
XorByte(h, byte) == [h EXCEPT ![1] = BitXor(h[1], byte, 8)]

RECURSIVE ColumnSum(_, _, _, _)
ColumnSum(a, b, k, i) ==
    IF i > k THEN 0 ELSE (a[i] * b[k + 1 - i]) + ColumnSum(a, b, k, i + 1)

RECURSIVE MulFrom(_, _, _, _)
MulFrom(a, b, k, carry) ==
    IF k > 8 THEN <<>>
    ELSE LET s == ColumnSum(a, b, k, 1) + carry
         IN  <<(s % 256)>> \o MulFrom(a, b, k + 1, s \div 256)

\* u64::wrapping_mul
WrappingMul(a, b) == MulFrom(a, b, 1, 0)

\* 0xcbf29ce484222325
FNV_OFFSET_BASIS_64 == <<37, 35, 34, 132, 228, 156, 242, 203>>
\* 0x00000100000001b3
FNV_PRIME_64 == <<179, 1, 0, 0, 0, 1, 0, 0>>

RECURSIVE FnvFold(_, _, _)
FnvFold(h, bytes, i) ==
    IF i > Len(bytes) THEN h
    ELSE FnvFold(WrappingMul(XorByte(h, bytes[i]), FNV_PRIME_64), bytes, i + 1)

\* const_fnv1a_hash::fnv1a_hash_str_64 over the UTF-8 bytes of the name
fnv1a_hash_str_64(name) == FnvFold(FNV_OFFSET_BASIS_64, name, 1)

-----------------------------------------------------------------------------
(* Identifiers.  A name is the sequence of its UTF-8 bytes; an id is its   *)
(* hash field (the PhantomData marker has no runtime content).             *)

Name_a == <<97>>        \* "a"
Name_b == <<98>>        \* "b"
Names == {Name_a, Name_b}

\* The hashes of the names of the model, computed once.
HashOf == [n \in Names |-> fnv1a_hash_str_64(n)]

PrototypeId_from_name(name) ==
    IF name \in Names THEN HashOf[name] ELSE fnv1a_hash_str_64(name)
PrototypeId_from_raw(hash) == hash

\* PrototypeName::from_name: the id together with the retained name
PrototypeName_from_name(name) ==
    [id |-> PrototypeId_from_name(name), name |-> name]

ZeroHash == <<0, 0, 0, 0, 0, 0, 0, 0>>
\* u64 values handed to from_raw: a value that is some name's hash, and one
\* that is no name's hash.
RawHashes == {HashOf[Name_a], ZeroHash}

Ids == {HashOf[n] : n \in Names} \cup RawHashes

-----------------------------------------------------------------------------
(* Prototypes stored in a PrototypeRegistry<P>.  `name` is <<>> when the   *)
(* prototype retains no name (its id was built with from_raw), <<n>>       *)
(* otherwise.                                                              *)

Data == {1, 2}

NamedProto(n, d) == [id |-> HashOf[n], name |-> <<n>>, data |-> d]
RawProto(h, d) == [id |-> PrototypeId_from_raw(h), name |-> <<>>, data |-> d]

Prototypes ==
    {NamedProto(n, d) : n \in Names, d \in Data}
        \cup {RawProto(h, 1) : h \in RawHashes}

\* Prototype::id
Prototype_id(p) == p.id

-----------------------------------------------------------------------------
(* Returned values.                                                        *)

Unit == [tag |-> "()"]
Ok(v) == [tag |-> "Ok", val |-> v]
Err(e) == [tag |-> "Err", err |-> e]
Some(v) == [tag |-> "Some", val |-> v]
None == [tag |-> "None"]
DuplicateId(id) == [kind |-> "DuplicateId", id |-> id]
NotFound(id) == [kind |-> "NotFound", id |-> id]
Added(id) == [kind |-> "Added", id |-> id]
Removed(p) == [kind |-> "Removed", proto |-> p]

\* What the last call was and what it returned.
Called(op, res) == [op |-> op, res |-> res]

\* No document loaded yet.
NoDoc == [kind |-> "none"]

\* The loader tasks of the IO task pool that run at the same time, and a task
\* that runs no load: `path` and `doc` are the path and the bytes of the
\* document, `on_disk_prototypes` what the parser made of them, `parked`
\* whether its call of read() waits behind a writer, `completed` the
\* discriminants in the registry when the first guard was taken,
\* `converted` what the closure of filter_map gave for each record,
\* `dependencies` the loads started through the load context and `out` what
\* load returned.
Loaders == {"io1", "io2"}
IdleTask ==
    [pc |-> "idle", path |-> <<>>, doc |-> NoDoc, on_disk_prototypes |-> None,
     parked |-> FALSE, completed |-> {}, converted |-> <<>>, dependencies |-> {},
     out |-> None]

-----------------------------------------------------------------------------
(* PrototypeRegistry<P>: each operation maps the map (and its argument) to *)
(* the map afterwards and the value returned.                              *)

EmptyMap == [k \in {} |-> Unit]

MapPut(reg, id, p) == [k \in DOMAIN reg \cup {id} |-> IF k = id THEN p ELSE reg[k]]
MapDel(reg, id) == [k \in DOMAIN reg \ {id} |-> reg[k]]

\* insert through HashMap::insert: an occupied entry is overwritten.
PrototypeRegistry_insert_overwriting(reg, prototype) ==
    [reg |-> MapPut(reg, Prototype_id(prototype), prototype), ret |-> Ok(Unit)]

PrototypeRegistry_insert(reg, prototype) ==
    LET id == Prototype_id(prototype)
    IN  IF id \in DOMAIN reg
        THEN [reg |-> reg, ret |-> Err(DuplicateId(id))]
        ELSE [reg |-> MapPut(reg, id, prototype), ret |-> Ok(Unit)]

\* try_for_each over the slice: insert each prototype, stop at the first Err.
RECURSIVE TryForEachInsert(_, _, _)
TryForEachInsert(reg, prototypes, i) ==
    IF i > Len(prototypes) THEN [reg |-> reg, ret |-> Ok(Unit)]
    ELSE LET r == PrototypeRegistry_insert(reg, prototypes[i])
         IN  IF r.ret.tag = "Err" THEN r
             ELSE TryForEachInsert(r.reg, prototypes, i + 1)

\* every prototype is inserted or none: a duplicate leaves the registry as
\* it was before the call.
PrototypeRegistry_insert_many_all_or_nothing(reg, prototypes) ==
    LET r == TryForEachInsert(reg, prototypes, 1)
    IN  IF r.ret.tag = "Err" THEN [reg |-> reg, ret |-> r.ret] ELSE r

PrototypeRegistry_insert_many(reg, prototypes) ==
    TryForEachInsert(reg, prototypes, 1)

PrototypeRegistry_get(reg, id) ==
    IF id \in DOMAIN reg THEN Some(reg[id]) ELSE None

\* a lookup that scans for the retained name instead of hashing it.
PrototypeRegistry_get_by_name_scanning(reg, name) ==
    IF \E id \in DOMAIN reg : reg[id].name = <<name>>
    THEN Some(reg[CHOOSE id \in DOMAIN reg : reg[id].name = <<name>>])
    ELSE None

PrototypeRegistry_get_by_name(reg, name) ==
    PrototypeRegistry_get(reg, PrototypeId_from_name(name))

\* The slot a &mut P would point at: the same entry get finds.
PrototypeRegistry_get_mut(reg, id) ==
    IF id \in DOMAIN reg THEN Some(reg[id]) ELSE None

PrototypeRegistry_get_mut_by_name(reg, name) ==
    PrototypeRegistry_get_mut(reg, PrototypeId_from_name(name))

\* remove that hands out the entry and leaves it in the map.
PrototypeRegistry_remove_keeping(reg, id) ==
    IF id \in DOMAIN reg
    THEN [reg |-> reg, ret |-> Ok(reg[id])]
    ELSE [reg |-> reg, ret |-> Err(NotFound(id))]

PrototypeRegistry_remove(reg, id) ==
    IF id \in DOMAIN reg
    THEN [reg |-> MapDel(reg, id), ret |-> Ok(reg[id])]
    ELSE [reg |-> reg, ret |-> Err(NotFound(id))]

\* removal by name that scans for the retained name instead of hashing it.
PrototypeRegistry_remove_by_name_scanning(reg, name) ==
    IF \E id \in DOMAIN reg : reg[id].name = <<name>>
    THEN PrototypeRegistry_remove(reg, CHOOSE id \in DOMAIN reg : reg[id].name = <<name>>)
    ELSE [reg |-> reg, ret |-> Err(NotFound(PrototypeId_from_name(name)))]

PrototypeRegistry_remove_by_name(reg, name) ==
    PrototypeRegistry_remove(reg, PrototypeId_from_name(name))

\* clear that leaves the entries where they are.
PrototypeRegistry_clear_keeping(reg) == reg

PrototypeRegistry_clear(reg) == EmptyMap

\* The orders in which the HashMap may hand out its entries: the order is
\* not specified and depends on the hasher and on the history of the
\* table, so every order of the keys is one.
IterOrders(reg) ==
    {s \in [1..Cardinality(DOMAIN reg) -> DOMAIN reg] :
        \A i, j \in DOMAIN s : s[i] = s[j] => i = j}

\* ids(): the keys, in the order the table is in.
PrototypeRegistry_ids(reg, order) == order

\* prototypes(): the values, in the order the table is in.
PrototypeRegistry_prototypes(reg, order) ==
    [i \in 1..Len(order) |-> reg[order[i]]]

-----------------------------------------------------------------------------
(* RegMut<P>: the registry together with the writer of RegistryEvent<P>.   *)

\* the insert made on a clone of the registry: the event is written, the
\* resource is left as it was.
RegMut_insert_detached(reg, ev, prototype) ==
    LET r == PrototypeRegistry_insert(reg, prototype)
    IN  IF r.ret.tag = "Ok"
        THEN [reg |-> reg, events |-> Append(ev, Added(Prototype_id(prototype))), ret |-> Ok(Unit)]
        ELSE [reg |-> reg, events |-> ev, ret |-> r.ret]

\* the event written before the outcome of the insert is looked at.
RegMut_insert_eager(reg, ev, prototype) ==
    LET r == PrototypeRegistry_insert(reg, prototype)
    IN  [reg |-> r.reg, events |-> Append(ev, Added(Prototype_id(prototype))), ret |-> r.ret]

RegMut_insert(reg, ev, prototype) ==
    LET id == Prototype_id(prototype)
        r == PrototypeRegistry_insert(reg, prototype)
    IN  IF r.ret.tag = "Ok"
        THEN [reg |-> r.reg, events |-> Append(ev, Added(id)), ret |-> Ok(Unit)]
        ELSE [reg |-> r.reg, events |-> ev, ret |-> r.ret]

RegMut_remove(reg, ev, id) ==
    LET r == PrototypeRegistry_remove(reg, id)
    IN  IF r.ret.tag = "Ok"
        THEN [reg |-> r.reg, events |-> Append(ev, Removed(r.ret.val)), ret |-> Ok(Unit)]
        ELSE [reg |-> r.reg, events |-> ev, ret |-> r.ret]

RegMut_remove_by_name(reg, ev, name) ==
    LET r == PrototypeRegistry_remove_by_name(reg, name)
    IN  IF r.ret.tag = "Ok"
        THEN [reg |-> r.reg, events |-> Append(ev, Removed(r.ret.val)), ret |-> Ok(Unit)]
        ELSE [reg |-> r.reg, events |-> ev, ret |-> r.ret]

\* The example's consumer system: for every event read, an Added(id) is
\* looked up through Reg<P> and the Option unwrapped (a None panics), then
\* the icon of the sword is looked up in Assets<Icon> and unwrapped (a None
\* panics); the swords that got that far are logged in the order read.
\* icons holds the ids of the swords whose icon is in Assets<Icon>.
RECURSIVE FoundFrom(_, _, _, _)
FoundFrom(reg, ev, icons, i) ==
    IF i > Len(ev) THEN [tag |-> "logged", val |-> <<>>]
    ELSE IF ev[i].kind # "Added" THEN FoundFrom(reg, ev, icons, i + 1)
    ELSE IF PrototypeRegistry_get(reg, ev[i].id).tag = "None"
         THEN [tag |-> "panic", at |-> "swords.get"]
    ELSE IF ev[i].id \notin icons
         THEN [tag |-> "panic", at |-> "icons.get"]
    ELSE LET rest == FoundFrom(reg, ev, icons, i + 1)
         IN  IF rest.tag = "panic" THEN rest
             ELSE [tag |-> "logged", val |-> <<reg[ev[i].id]>> \o rest.val]

on_new_sword(reg, ev, icons) == FoundFrom(reg, ev, icons, 1)

-----------------------------------------------------------------------------
(* Documents.  The bytes of a document are either no JSON at all or a JSON *)
(* value: an array of values, an object, or a scalar.  An object carries   *)
(* the keys `type`, `name` and `tags` (each <<>> when the key is absent,   *)
(* <<v>> when present) and its remaining keys as the flattened payload.    *)

JInt(n) == [k |-> "int", n |-> n]
JStr == [k |-> "str", n |-> 0]
JNull == [k |-> "null", n |-> 0]

\* The JSON strings of the model, by number.  A string is written as the
\* components std::path::Path::iter gives for it (a leading "/" is the root
\* component): "x", "../icons/foo.png", "foo.png", "/icons/foo.png".
Strings ==
    [n \in 0..3 |->
        CASE n = 0 -> <<"x">>
          [] n = 1 -> <<"..", "icons", "foo.png">>
          [] n = 2 -> <<"foo.png">>
          [] n = 3 -> <<"/", "icons", "foo.png">>]

JString(n) == [k |-> "str", n |-> n]

JObject(ty, name, tags, proto) ==
    [kind |-> "object", ty |-> ty, name |-> name, tags |-> tags, proto |-> proto]
JNumber == [kind |-> "number", ty |-> <<>>, name |-> <<>>, tags |-> <<>>, proto |-> EmptyMap]

SwordA == JObject(<<"sword">>, <<Name_a>>, <<>>, [level |-> JInt(1)])
SwordB == JObject(<<"sword">>, <<Name_b>>, << <<"rare">> >>, [level |-> JInt(2)])
EffectA == JObject(<<"effect">>, <<Name_a>>, <<>>, [slow_duration |-> JInt(-1)])
EffectNull == JObject(<<"effect">>, <<Name_b>>, <<>>, [slow_duration |-> JNull])
UnknownA == JObject(<<"does_not_exist">>, <<Name_a>>, <<>>, [level |-> JInt(1)])
SwordBadPayload == JObject(<<"sword">>, <<Name_b>>, <<>>, [level |-> JStr])
NoNameKey == JObject(<<"sword">>, <<>>, <<>>, [level |-> JInt(1)])
NoTypeKey == JObject(<<>>, <<Name_a>>, <<>>, [level |-> JInt(1)])
\* A second sword named "a", a gem whose two handle fields name the same
\* icon relative to the document, and a second gem named "a" with a
\* root-relative icon and a glow beside the document.
SwordA2 == JObject(<<"sword">>, <<Name_a>>, << <<"epic">> >>, [level |-> JInt(2)])
GemA == JObject(<<"gem">>, <<Name_a>>, <<>>, [icon |-> JString(1), glow |-> JString(1)])
GemB == JObject(<<"gem">>, <<Name_a>>, <<>>, [icon |-> JString(3), glow |-> JString(2)])
\* A gem whose glow is a path and whose icon is a number.
GemBadIcon == JObject(<<"gem">>, <<Name_a>>, <<>>, [icon |-> JInt(1), glow |-> JString(2)])

\* The elements of the list documents of every length, and those that come
\* alone or beside a sword.
Elems == {SwordA, SwordB, EffectA, UnknownA, SwordBadPayload, NoNameKey}
LoneElems == {NoTypeKey, JNumber}

JArray(items) == [kind |-> "array", items |-> items]
InvalidJson == [kind |-> "invalid", items |-> <<>>]

SeqsUpTo(S, n) == UNION {[1..k -> S] : k \in 0..n}

Docs ==
    {JArray(items) : items \in SeqsUpTo(Elems, MaxDocLen)}
        \cup {JArray(<<SwordA, e, SwordB>>) : e \in {UnknownA, SwordBadPayload, NoNameKey}}
        \cup {JArray(<<e>>) : e \in LoneElems}
        \cup {JArray(<<SwordA, e>>) : e \in LoneElems}
        \cup {[kind |-> e.kind, items |-> <<e>>] : e \in Elems \cup LoneElems}
        \cup {InvalidJson}

-----------------------------------------------------------------------------
(* The registered data shapes (the example's Sword and Effect).            *)

TypeIds == {"Sword", "Effect"}

\* PrototypeData::prototype_name
prototype_name(D) ==
    CASE D = "Sword" -> "sword"
      [] D = "Effect" -> "effect"
      [] D = "Gem" -> "gem"
      [] D = "Tree" -> "tree"
      [] D = "Scroll" -> "scroll"

\* The fields of each shape and the type of each.  Sword and Effect are the
\* example's, each cut to one of its fields with the type it has there
\* (level: u32, slow_duration: Option<f32>); Gem holds two asset handles,
\* Tree holds a list of Trees, Scroll holds a string and a handle.
Shape(D) ==
    CASE D = "Sword" -> [level |-> "u32"]
      [] D = "Effect" -> [slow_duration |-> "Option<f32>"]
      [] D = "Gem" -> [icon |-> "Handle<Icon>", glow |-> "Handle<Icon>"]
      [] D = "Tree" -> [children |-> "Vec<Tree>"]
      [] D = "Scroll" -> [text |-> "String", seal |-> "Handle<Icon>"]

\* The path of the document loaded where only its bytes matter.
DocPath == <<"assets", "protos", "sword.proto.json">>

\* AssetPath::parent: the path without its last component.
AssetPath_parent(path) ==
    IF path = <<>> THEN None ELSE Some(SubSeq(path, 1, Len(path) - 1))

\* bevy_asset's normalize_path: "." is dropped, ".." pops the last
\* component and stays when there is none to pop.
RECURSIVE normalize_path(_, _)
normalize_path(result_path, rest) ==
    IF rest = <<>> THEN result_path
    ELSE IF Head(rest) = "." THEN normalize_path(result_path, Tail(rest))
    ELSE IF Head(rest) = ".." /\ result_path # <<>>
         THEN normalize_path(SubSeq(result_path, 1, Len(result_path) - 1), Tail(rest))
         ELSE normalize_path(Append(result_path, Head(rest)), Tail(rest))

\* AssetPath::resolve: a leading slash is stripped and makes the string
\* relative to the root of the asset source, any other string is appended
\* to the base; the result is normalized.
AssetPath_resolve(base, rpath) ==
    IF rpath # <<>> /\ Head(rpath) = "/"
    THEN normalize_path(<<>>, Tail(rpath))
    ELSE normalize_path(<<>>, base \o rpath)

\* the string resolved against the path of the document itself, without
\* taking its parent.
visit_str_without_parent(asset_path, relative_path) ==
    AssetPath_resolve(asset_path, relative_path)

\* AssetPathVisitor::visit_str
visit_str(asset_path, relative_path) ==
    AssetPath_resolve(AssetPath_parent(asset_path).val, relative_path)

\* HandleProcessor::try_deserialize for a field whose type is a Handle: the
\* value must be a string, its path is resolved and handed to the loader of
\* the load context, and the handle returned is the value of the field.
HandleProcessor_try_deserialize(asset_path, v) ==
    IF v.k # "str" THEN Err("invalid type, expected asset path")
    ELSE Ok([handle |-> visit_str(asset_path, Strings[v.n])])

\* Whether a JSON value deserializes into a field of that type.  An Option
\* takes null for None and, for Some, whatever its inner type takes.
FieldAccepts(kind, v) ==
    CASE kind = "u32" -> v.k = "int" /\ v.n >= 0
      [] kind = "f32" -> v.k = "int"
      [] kind = "Option<f32>" -> v.k \in {"null", "int"}
      [] kind = "Handle<Icon>" -> v.k = "str"
      [] kind = "String" -> v.k = "str"
      [] OTHER -> FALSE

\* every string value is taken for an asset path, whatever the field.
FieldValue_by_value(kind, v, asset_path) ==
    IF v.k = "str"
    THEN HandleProcessor_try_deserialize(asset_path, v).val
    ELSE IF kind = "Option<f32>" THEN (IF v.k = "null" THEN None ELSE Some(v.n))
    ELSE v.n

\* The value a field takes: the processor handles the fields whose type is
\* a Handle and gives every other field back to the ordinary deserializer.
FieldValue(kind, v, asset_path) ==
    IF kind = "Handle<Icon>"
    THEN HandleProcessor_try_deserialize(asset_path, v).val
    ELSE IF kind = "String" THEN [string |-> Strings[v.n]]
    ELSE IF kind = "Option<f32>" THEN (IF v.k = "null" THEN None ELSE Some(v.n))
    ELSE v.n

\* The keys of the payloads of the model, in the order serde_json hands the
\* keys of a Value out: its Map is sorted by key.
FieldOrder == <<"children", "glow", "icon", "level", "seal", "slow_duration", "text">>
Map_keys(proto) == SelectSeq(FieldOrder, LAMBDA f : f \in DOMAIN proto)

\* The visit of the payload by the deserializer of shape D, key after key
\* from the i-th on: a key that is no field of the shape, or a value that is
\* not of the type of its field, ends the visit with an error; a field that
\* is a handle goes through the HandleProcessor, which starts the load of
\* its path (prototype.rs 174-178) before the next key is looked at; a
\* field of the shape without a key is an error at the end.  `loads` are
\* the loads started, whatever the outcome of the visit.
RECURSIVE TypedReflectDeserializer_visit(_, _, _, _, _, _)
TypedReflectDeserializer_visit(D, proto, keys, asset_path, i, st) ==
    IF i > Len(keys)
    THEN IF DOMAIN st.fields = DOMAIN Shape(D)
         THEN [res |-> Ok([type |-> D, fields |-> st.fields]), loads |-> st.loads]
         ELSE [res |-> Err("missing field"), loads |-> st.loads]
    ELSE LET f == keys[i]
         IN  IF f \notin DOMAIN Shape(D)
             THEN [res |-> Err("unknown field"), loads |-> st.loads]
             ELSE IF ~FieldAccepts(Shape(D)[f], proto[f])
             THEN [res |-> Err("invalid type"), loads |-> st.loads]
             ELSE TypedReflectDeserializer_visit(D, proto, keys, asset_path, i + 1,
                     [fields |-> MapPut(st.fields, f,
                                        FieldValue(Shape(D)[f], proto[f], asset_path)),
                      loads |-> IF Shape(D)[f] = "Handle<Icon>"
                                THEN st.loads \cup
                                        {HandleProcessor_try_deserialize(asset_path, proto[f]).val.handle}
                                ELSE st.loads])

\* TypedReflectDeserializer::deserialize of a payload into shape D: every
\* field of the shape, and no other key, with a value of the field's type.
TypedReflectDeserializer_deserialize(D, proto, asset_path) ==
    TypedReflectDeserializer_visit(D, proto, Map_keys(proto), asset_path, 1,
                                   [fields |-> EmptyMap, loads |-> {}]).res

-----------------------------------------------------------------------------
(* OnDiskPrototype, OnDiskPrototypes and PrototypesAssetLoader::load.      *)

\* ErasedPrototypeName::from_name, through its Deserialize
ErasedPrototypeName_from_name(name) ==
    [id |-> PrototypeId_from_name(name), name |-> name]

\* #[derive(Deserialize)] of OnDiskPrototype: a map with a string `type`,
\* a string `name`, `tags` defaulting to empty, the rest flattened.
OnDiskPrototype_deserialize(e) ==
    IF e.kind = "object" /\ e.ty # <<>> /\ e.name # <<>>
    THEN Ok([ty |-> e.ty[1],
             name |-> ErasedPrototypeName_from_name(e.name[1]),
             tags |-> IF e.tags = <<>> THEN <<>> ELSE e.tags[1],
             proto |-> e.proto])
    ELSE Err("missing field")

\* <Box<[OnDiskPrototype]> as Deserialize>: a sequence whose every element
\* is an OnDiskPrototype.
BoxSlice_deserialize(content) ==
    IF /\ content.kind = "array"
       /\ \A i \in 1..Len(content.items) :
             OnDiskPrototype_deserialize(content.items[i]).tag = "Ok"
    THEN Ok([i \in 1..Len(content.items) |->
                OnDiskPrototype_deserialize(content.items[i]).val])
    ELSE Err("invalid type")

MustBeListOrSingle == "on disk prototypes must be a list or a single prototype"

\* only the list shape is tried.
OnDiskPrototypes_deserialize_list_only(content) ==
    IF content.kind = "invalid" THEN Err("syntax")
    ELSE IF BoxSlice_deserialize(content).tag = "Ok"
         THEN BoxSlice_deserialize(content)
         ELSE Err(MustBeListOrSingle)

\* the elements of a list that are no OnDiskPrototype are skipped.
OnDiskPrototypes_deserialize_lenient(content) ==
    IF content.kind = "invalid" THEN Err("syntax")
    ELSE IF content.kind = "array"
         THEN LET good == SelectSeq(content.items,
                              LAMBDA e : OnDiskPrototype_deserialize(e).tag = "Ok")
              IN  Ok([i \in 1..Len(good) |-> OnDiskPrototype_deserialize(good[i]).val])
         ELSE IF content.kind = "object"
                   /\ OnDiskPrototype_deserialize(content.items[1]).tag = "Ok"
              THEN Ok(<<OnDiskPrototype_deserialize(content.items[1]).val>>)
              ELSE Err(MustBeListOrSingle)

OnDiskPrototypes_deserialize(content) ==
    IF content.kind = "invalid" THEN Err("syntax")
    ELSE IF BoxSlice_deserialize(content).tag = "Ok"
         THEN BoxSlice_deserialize(content)
         ELSE IF content.kind = "object"
                   /\ OnDiskPrototype_deserialize(content.items[1]).tag = "Ok"
              THEN Ok(<<OnDiskPrototype_deserialize(content.items[1]).val>>)
              ELSE Err(MustBeListOrSingle)

\* The closure of filter_map: one on-disk prototype to a dynamic prototype,
\* or None.
ConvertOnDisk(prototype, ptr, treg, asset_path) ==
    IF prototype.ty \notin DOMAIN ptr THEN None
    ELSE LET type_id == ptr[prototype.ty]
         IN  IF type_id \notin treg THEN None
             ELSE LET proto == TypedReflectDeserializer_deserialize(type_id, prototype.proto, asset_path)
                  IN  IF proto.tag = "Err" THEN None
                      ELSE Some(<<type_id,
                                  [name |-> prototype.name,
                                   tags |-> prototype.tags,
                                   proto |-> proto.val]>>)

\* The loads the closure starts through the load context for one on-disk
\* prototype, kept or not.
ConvertOnDisk_loads(prototype, ptr, treg, asset_path) ==
    IF prototype.ty \notin DOMAIN ptr THEN {}
    ELSE IF ptr[prototype.ty] \notin treg THEN {}
    ELSE TypedReflectDeserializer_visit(ptr[prototype.ty], prototype.proto,
                                        Map_keys(prototype.proto), asset_path, 1,
                                        [fields |-> EmptyMap, loads |-> {}]).loads

\* The dependencies the load context holds when the filter_map is done.
LoadContext_dependencies(ps, ptr, treg, asset_path) ==
    UNION {ConvertOnDisk_loads(ps[i], ptr, treg, asset_path) : i \in 1..Len(ps)}

\* What the closure writes with error! for the on-disk prototypes it drops
\* (prototype.rs 236, 241, 255): the discriminant that is not registered,
\* the error of the deserializer, and for a TypeId that has no registration
\* the same line whatever the type: type_id is a &TypeId, so
\* type_id.type_id() is Any::type_id of the TypeId value, the id of the type
\* core::any::TypeId (an id is written here as the name of its type), and
\* neither the id of the prototype's type nor its discriminant is printed.
FilterMap_errors(ps, ptr, treg, asset_path) ==
    UNION {IF ps[i].ty \notin DOMAIN ptr
           THEN {"Unknown prototype type " \o ps[i].ty}
           ELSE IF ptr[ps[i].ty] \notin treg
           THEN {"Unknown prototype type id TypeId"}
           ELSE LET proto == TypedReflectDeserializer_deserialize(
                                 ptr[ps[i].ty], ps[i].proto, asset_path)
                IN  IF proto.tag = "Err"
                    THEN {"Failed to deserialize prototype: " \o proto.err}
                    ELSE {} : i \in 1..Len(ps)}

RECURSIVE FilterMapFrom(_, _, _, _, _)
FilterMapFrom(ps, ptr, treg, asset_path, i) ==
    IF i > Len(ps) THEN <<>>
    ELSE LET c == ConvertOnDisk(ps[i], ptr, treg, asset_path)
         IN  (IF c.tag = "Some" THEN <<c.val>> ELSE <<>>)
                 \o FilterMapFrom(ps, ptr, treg, asset_path, i + 1)

\* the conversion stops at the first record that yields None.
RECURSIVE MapWhileFrom(_, _, _, _, _)
MapWhileFrom(ps, ptr, treg, asset_path, i) ==
    IF i > Len(ps) THEN <<>>
    ELSE LET c == ConvertOnDisk(ps[i], ptr, treg, asset_path)
         IN  IF c.tag = "Some"
             THEN <<c.val>> \o MapWhileFrom(ps, ptr, treg, asset_path, i + 1)
             ELSE <<>>

PrototypesAssetLoader_load_map_while(content, ptr, treg, asset_path) ==
    LET on_disk_prototypes == OnDiskPrototypes_deserialize(content)
    IN  IF on_disk_prototypes.tag = "Err"
        THEN Err([io |-> on_disk_prototypes.err])
        ELSE Ok(MapWhileFrom(on_disk_prototypes.val, ptr, treg, asset_path, 1))

\* a payload that fails to deserialize is propagated with `?`.
PrototypesAssetLoader_load_failing(content, ptr, treg, asset_path) ==
    LET on_disk_prototypes == OnDiskPrototypes_deserialize(content)
    IN  IF on_disk_prototypes.tag = "Err"
        THEN Err([io |-> on_disk_prototypes.err])
        ELSE IF \E i \in 1..Len(on_disk_prototypes.val) :
                    LET r == on_disk_prototypes.val[i]
                    IN  /\ r.ty \in DOMAIN ptr
                        /\ TypedReflectDeserializer_deserialize(ptr[r.ty], r.proto, asset_path).tag = "Err"
             THEN Err([io |-> "reflect"])
             ELSE Ok(FilterMapFrom(on_disk_prototypes.val, ptr, treg, asset_path, 1))

\* a document that does not parse is taken for an empty list.
PrototypesAssetLoader_load_or_default(content, ptr, treg, asset_path) ==
    LET on_disk_prototypes == OnDiskPrototypes_deserialize(content)
    IN  IF on_disk_prototypes.tag = "Err"
        THEN Ok(<<>>)
        ELSE Ok(FilterMapFrom(on_disk_prototypes.val, ptr, treg, asset_path, 1))

PrototypesAssetLoader_load(content, ptr, treg, asset_path) ==
    LET on_disk_prototypes == OnDiskPrototypes_deserialize(content)
    IN  IF on_disk_prototypes.tag = "Err"
        THEN Err([io |-> on_disk_prototypes.err])
        ELSE Ok(FilterMapFrom(on_disk_prototypes.val, ptr, treg, asset_path, 1))

-----------------------------------------------------------------------------
(* PrototypeRegistries, the resource on_prototypes_asset_loaded inserts    *)
(* into: one map from id to Prototype<D> for each registered D.            *)

\* new_registry::<D>: the registry of D is created when there is none.
PrototypeRegistries_new_registry(regs, D) ==
    IF D \in DOMAIN regs THEN regs ELSE MapPut(regs, D, EmptyMap)

\* insert_dyn(ty, id, proto): rejected when the id already exists for ty.
PrototypeRegistries_insert_dyn(regs, ty, id, proto) ==
    IF ty \notin DOMAIN regs THEN [regs |-> regs, ret |-> Err(NotFound(ty))]
    ELSE IF id \in DOMAIN regs[ty]
         THEN [regs |-> regs, ret |-> Err(DuplicateId(id))]
         ELSE [regs |-> [regs EXCEPT ![ty] = MapPut(@, id, proto)], ret |-> Ok(Unit)]

-----------------------------------------------------------------------------
(* Registration and loading as a state machine.                            *)

-----------------------------------------------------------------------------
(* Schema generation.  A type is named by its Rust type; its title is its  *)
(* type path (shortened here to the type's name).  A schema is a record of *)
(* the JSON-Schema keywords the generators emit; a `$ref` is the string    *)
(* "#/definitions/<title>".  PrototypesSchemas.refs maps titles to schemas *)
(* and PrototypesSchemas.prototypes maps discriminants to `$ref`s.         *)

\* The frames of json_schema the stack of the calling thread can hold: a
\* deeper recursion overflows the stack and aborts the process.
MaxStack == 4

\* Every data shape of the model.
DataTypes == {"Sword", "Effect", "Gem", "Tree", "Scroll"}

Prototype(D) == "Prototype<" \o D \o ">"
PrototypeName(D) == "PrototypeName<" \o D \o ">"

\* The named fields of each shape, in declaration order.
Fields(D) ==
    CASE D = "Sword" -> <<"level">>
      [] D = "Effect" -> <<"slow_duration">>
      [] D = "Gem" -> <<"icon", "glow">>
      [] D = "Tree" -> <<"children">>
      [] D = "Scroll" -> <<"text", "seal">>

\* JsonSchema::schema_title: the type path, but "PrototypeName" for every
\* PrototypeName<P>.
schema_title(T) ==
    IF \E D \in DataTypes : T = PrototypeName(D) THEN "PrototypeName" ELSE T

\* JsonSchema::schema_ref
schema_ref(T) == "#/definitions/" \o schema_title(T)

\* The field types the derive registers: one per distinct type, in field
\* order (the `types` HashSet of the macro).
FieldTypes(D) ==
    LET fs == Fields(D)
        first == {i \in 1..Len(fs) : \A j \in 1..(i - 1) : Shape(D)[fs[j]] # Shape(D)[fs[i]]}
        RECURSIVE From(_)
        From(i) == IF i > Len(fs) THEN <<>>
                   ELSE IF i \in first THEN <<Shape(D)[fs[i]]>> \o From(i + 1)
                        ELSE From(i + 1)
    IN  From(1)

\* The types whose schema the json_schema of T registers before it builds
\* its own, in the order of the code.
SchemaChildren(T) ==
    IF \E D \in DataTypes : T = Prototype(D)
    THEN LET D == CHOOSE D \in DataTypes : T = Prototype(D)
         IN  <<PrototypeName(D), "Vec<String>", D>>
    ELSE IF T \in DataTypes THEN FieldTypes(T)
    ELSE IF T = "Vec<String>" THEN <<"String">>
    ELSE IF T = "Vec<Tree>" THEN <<"Tree">>
    ELSE IF T = "Option<f32>" THEN <<"f32">>
    ELSE IF T = "Option<u32>" THEN <<"u32">>
    ELSE <<>>

NoRef == ""

\* A json!({...}) schema by the keywords it carries: `ref` is its own
\* `$ref` (NoRef when it has none), `items` the `$ref` of its items.
JsonSchemaValue(type, required, properties, allOf, items, minimum) ==
    [type |-> type, required |-> required, properties |-> properties,
     allOf |-> allOf, items |-> items, minimum |-> minimum, ref |-> NoRef]

\* f32::MIN (-3.4028235e38), which lies below every integer there is here.
f32_MIN == "f32::MIN"

\* A named field of a structure as the derive sees it: its name, its type
\* and its #[serde(skip)], #[serde(flatten)] and #[serde(default)] marks.
Field(name, ty, skip, flatten, default) ==
    [name |-> name, ty |-> ty, skip |-> skip, flatten |-> flatten, default |-> default]

\* The fields of the data shapes of the model: none carries a serde mark.
FieldsNamed(D) ==
    [i \in 1..Len(Fields(D)) |-> Field(Fields(D)[i], Shape(D)[Fields(D)[i]], FALSE, FALSE, FALSE)]

\* SerdeAttributes::try_from_attributes for a field: the marks are read only
\* when the structure carries #[reflect(Deserialize)]; without it every
\* attribute keeps its default.
SerdeAttributes_try_from_attributes(field, do_reflect_deserialize) ==
    IF ~do_reflect_deserialize
    THEN [skip |-> FALSE, flatten |-> FALSE, default |-> FALSE]
    ELSE [skip |-> field.skip, flatten |-> field.flatten, default |-> field.default]

\* is_option: the last segment of the type path is `Option`.
is_option(ty) == ty \in {"Option<u32>", "Option<f32>"}

\* json_schema_struct with the `default` mark ignored.
\* What there is in place of a schema when the tokens the derive generates
\* are rejected by the compiler.
DoesNotCompile == [error |-> "json!: no rules expected this token"]

json_schema_struct_default_required(fields_named, do_reflect_deserialize) ==
    LET attrs(i) == SerdeAttributes_try_from_attributes(fields_named[i], do_reflect_deserialize)
        kept == {i \in 1..Len(fields_named) : ~attrs(i).skip}
        props == {i \in kept : ~attrs(i).flatten}
        RECURSIVE Seq_of(_, _)
        Seq_of(S, i) == IF i > Len(fields_named) THEN <<>>
                        ELSE IF i \in S THEN <<i>> \o Seq_of(S, i + 1) ELSE Seq_of(S, i + 1)
        req == Seq_of({i \in props : ~is_option(fields_named[i].ty)}, 1)
        flat == Seq_of(kept \ props, 1)
    IN  IF Len(flat) > 1 THEN DoesNotCompile
        ELSE JsonSchemaValue("object",
                [k \in 1..Len(req) |-> fields_named[req[k]].name],
                [n \in {fields_named[i].name : i \in props} |->
                    schema_ref(fields_named[CHOOSE i \in props : fields_named[i].name = n].ty)],
                [k \in 1..Len(flat) |-> schema_ref(fields_named[flat[k]].ty)],
                NoRef, <<>>)

\* json_schema_struct for named fields, the json! it generates: a skipped
\* field is left out, a flattened one is a `$ref` of allOf, every other is
\* a property, listed in `required` unless its type is an Option or it is
\* marked default.  The `$ref` objects of allOf are appended one after the
\* other with no comma between them, so a second flattened field makes a
\* json! that does not compile.
json_schema_struct(fields_named, do_reflect_deserialize) ==
    LET attrs(i) == SerdeAttributes_try_from_attributes(fields_named[i], do_reflect_deserialize)
        kept == {i \in 1..Len(fields_named) : ~attrs(i).skip}
        props == {i \in kept : ~attrs(i).flatten}
        RECURSIVE Seq_of(_, _)
        Seq_of(S, i) == IF i > Len(fields_named) THEN <<>>
                        ELSE IF i \in S THEN <<i>> \o Seq_of(S, i + 1) ELSE Seq_of(S, i + 1)
        req == Seq_of({i \in props : ~is_option(fields_named[i].ty) /\ ~attrs(i).default}, 1)
        flat == Seq_of(kept \ props, 1)
    IN  IF Len(flat) > 1 THEN DoesNotCompile
        ELSE JsonSchemaValue("object",
                [k \in 1..Len(req) |-> fields_named[req[k]].name],
                [n \in {fields_named[i].name : i \in props} |->
                    schema_ref(fields_named[CHOOSE i \in props : fields_named[i].name = n].ty)],
                [k \in 1..Len(flat) |-> schema_ref(fields_named[flat[k]].ty)],
                NoRef, <<>>)

\* The json!({...}) each json_schema returns once its children are
\* registered: `minimum` is 0 for u32 and f32::MIN for f32, and the schema
\* of an Option is the type ["object", "null"] beside a `$ref` to the
\* schema of its inner type.
SchemaOf(T) ==
    IF \E D \in DataTypes : T = Prototype(D)
    THEN LET D == CHOOSE D \in DataTypes : T = Prototype(D)
         IN  JsonSchemaValue("object", <<"name">>,
                 [name |-> schema_ref(PrototypeName(D)), tags |-> schema_ref("Vec<String>")],
                 <<schema_ref(D)>>, NoRef, <<>>)
    ELSE IF T \in DataTypes THEN json_schema_struct(FieldsNamed(T), FALSE)
    ELSE IF T \in {"Vec<String>", "Vec<Tree>"}
    THEN JsonSchemaValue("array", <<>>, EmptyMap, <<>>,
             schema_ref(SchemaChildren(T)[1]), <<>>)
    ELSE IF T = "u32" THEN JsonSchemaValue("integer", <<>>, EmptyMap, <<>>, NoRef, <<0>>)
    ELSE IF T = "f32" THEN JsonSchemaValue("number", <<>>, EmptyMap, <<>>, NoRef, <<f32_MIN>>)
    ELSE IF T \in {"Option<f32>", "Option<u32>"}
    THEN [JsonSchemaValue(<<"object", "null">>, <<>>, EmptyMap, <<>>, NoRef, <<>>)
             EXCEPT !.ref = schema_ref(SchemaChildren(T)[1])]
    ELSE JsonSchemaValue("string", <<>>, EmptyMap, <<>>, NoRef, <<>>)

\* the guard never finds the title.
contains_key_never(refs, ty_title) == FALSE

\* refs.contains_key(&ty_title)
contains_key(refs, ty_title) == ty_title \in DOMAIN refs

\* <T as JsonSchema>::json_schema(refs) at stack depth `depth`.  st is
\* [refs, written, overflow]: the table, the titles inserted so far by the
\* running register_prototype call, and whether the stack overflowed.  Each
\* child is generated and then inserted, unless its title is in the table.
RECURSIVE json_schema(_, _, _)
RECURSIVE RegisterFrom(_, _, _, _)
RegisterFrom(tys, st, depth, i) ==
    IF i > Len(tys) \/ st.overflow THEN st
    ELSE LET ty_title == schema_title(tys[i])
         IN  IF contains_key(st.refs, ty_title)
             THEN RegisterFrom(tys, st, depth, i + 1)
             ELSE LET r == json_schema(tys[i], st, depth + 1)
                  IN  IF r.st.overflow THEN r.st
                      ELSE RegisterFrom(tys,
                               [refs |-> MapPut(r.st.refs, ty_title, r.schema),
                                written |-> Append(r.st.written, ty_title),
                                overflow |-> FALSE],
                               depth, i + 1)

json_schema(T, st, depth) ==
    IF depth > MaxStack
    THEN [st |-> [st EXCEPT !.overflow = TRUE], schema |-> SchemaOf(T)]
    ELSE [st |-> RegisterFrom(SchemaChildren(T), st, depth, 1), schema |-> SchemaOf(T)]

\* the schema part of register_prototype without the insert of the schema
\* of Prototype<D> itself.
register_prototype_schemas_without_insert(sch, D) ==
    LET r == json_schema(Prototype(D), [refs |-> sch.refs, written |-> <<>>, overflow |-> FALSE], 1)
    IN  [schemas |-> [prototypes |-> MapPut(sch.prototypes, prototype_name(D), schema_ref(Prototype(D))),
                      refs |-> r.st.refs],
         written |-> r.st.written,
         overflow |-> r.st.overflow]

\* The schema part of register_prototype::<D>: the `$ref` of Prototype<D>
\* under the discriminant, then the schema of Prototype<D> generated and
\* inserted under its title.
register_prototype_schemas(sch, D) ==
    LET r == json_schema(Prototype(D), [refs |-> sch.refs, written |-> <<>>, overflow |-> FALSE], 1)
        prototypes == MapPut(sch.prototypes, prototype_name(D), schema_ref(Prototype(D)))
    IN  IF r.st.overflow
        THEN [schemas |-> [prototypes |-> prototypes, refs |-> r.st.refs],
              written |-> r.st.written, overflow |-> TRUE]
        ELSE [schemas |-> [prototypes |-> prototypes,
                           refs |-> MapPut(r.st.refs, schema_title(Prototype(D)), r.schema)],
              written |-> Append(r.st.written, schema_title(Prototype(D))),
              overflow |-> FALSE]

\* The orders in which a HashMap may iterate over the keys S.
KeyOrders(S) ==
    {o \in [1..Cardinality(S) -> S] : \A i, j \in 1..Cardinality(S) : o[i] = o[j] => i = j}

\* only the list shape is emitted at the top level.
get_prototypes_schemas_list_only(sch, keys) ==
    [title |-> "Prototype",
     type |-> {"object", "array"},
     oneOf |-> <<[type |-> "array", items |-> "#/definitions/PrototypeAny"]>>,
     definitions |->
        MapPut(sch.refs, "PrototypeAny",
            [type |-> "object",
             required |-> <<"type", "name">>,
             oneOf |-> [i \in 1..Len(keys) |->
                           [enum |-> keys[i], ref |-> sch.prototypes[keys[i]]]]])]

\* get_prototypes_schemas: the table with "PrototypeAny" added (one branch
\* per key of `prototypes`, in the order `keys` of the iteration: the `type`
\* restricted to the key, and the `$ref` stored under it), under a top level
\* that is one PrototypeAny or an array of them.
get_prototypes_schemas(sch, keys) ==
    [title |-> "Prototype",
     type |-> {"object", "array"},
     oneOf |-> <<[ref |-> "#/definitions/PrototypeAny"],
                 [type |-> "array", items |-> "#/definitions/PrototypeAny"]>>,
     definitions |->
        MapPut(sch.refs, "PrototypeAny",
            [type |-> "object",
             required |-> <<"type", "name">>,
             oneOf |-> [i \in 1..Len(keys) |->
                           [enum |-> keys[i], ref |-> sch.prototypes[keys[i]]]]])]

\* The resources PrototypesPlugin::build puts into the World.
Resources ==
    {"PrototypeRegistries", "LoadingPrototypesHandles", "PrototypesSchemas",
     "AppPrototypeTypeRegistry"}

\* What a call that panicked returned.
Panic == [tag |-> "panic"]

\* The state after App::new, with the resources rs in its World: empty
\* registries, nothing loaded.
InitWith(rs) ==
    /\ registry = EmptyMap
    /\ events = <<>>
    /\ ret = Called("new", Unit)
    /\ type_registry = {}
    /\ prototype_type_registry = EmptyMap
    /\ tasks = [registering |-> None, spawned |-> {},
                loaders |-> [l \in Loaders |-> IdleTask]]
    /\ resources = rs
    /\ panicked = FALSE
    /\ running = FALSE
    /\ registries = EmptyMap
    /\ server = EmptyMap
    /\ dependencies = EmptyMap
    /\ assets = EmptyMap
    /\ asset_events = <<>>
    /\ loading_prototypes_handles = {}
    /\ log = {}
    /\ schemas = [prototypes |-> EmptyMap, refs |-> EmptyMap]
    /\ schema_log = [written |-> <<>>, overflow |-> FALSE]

\* The App with the plugin added.
Init == InitWith(Resources)

\* The App as App::new leaves it, the plugin not added yet.
InitBare == InitWith({})

\* Whether the process runs: the main thread has not panicked and no stack
\* overflow has aborted it.
Alive == ~panicked /\ ~schema_log.overflow

\* The loaders that hold the read guard of the Type Registry, and of the
\* Prototype Type Registry.
TypeRegistryReaders(t) == {l \in Loaders : t.loaders[l].pc \in {"registry", "both"}}
PrototypeTypeRegistryReaders(t) == {l \in Loaders : t.loaders[l].pc = "both"}

\* The register_prototype::<D> call the main thread is in and the line it
\* has reached: register_type (lib.rs 130), the resources of the World
\* (132-152) or the write of the discriminant (154-162).
Registering(D, at) == [tag |-> "Some", val |-> D, at |-> at]

\* Whether the main thread is in register_type and wants the write lock of
\* the Type Registry; whether it is at write() of the Prototype Type
\* Registry, which it calls when the World has the resource rs holds.
TypeRegistryWriter(t) ==
    t.registering # None /\ t.registering.at = "register_type"
PrototypeTypeRegistryWriter(t, rs) ==
    /\ t.registering # None
    /\ t.registering.at = "write"
    /\ "AppPrototypeTypeRegistry" \in rs

\* a lock that hands out one guard at a time, read or write.
RwLock_read_exclusive(readers, parked, writer) == readers = {} /\ ~(parked /\ writer)

\* RwLock::read as TypeRegistryArc::read and PrototypeTypeRegistry::read
\* (prototype.rs 25-29) call it, for a caller beside the loaders `readers`
\* that hold read guards: read guards are shared, and no write guard is held
\* from one step to the next, so the call returns with a guard unless it was
\* queued behind a writer that still waits for the lock.
RwLock_read(readers, parked, writer) == ~(parked /\ writer)

\* RwLock::write (prototype.rs 32-36; register_type): the guard is there
\* once no read guard is held.
RwLock_write(readers) == readers = {}

\* The loader tasks after the write guard of a registry was dropped: the
\* calls of read() queued behind the writer, which wait at pc, go on.
RwLock_unlock(loaders, pc) ==
    [l \in Loaders |-> IF loaders[l].pc = pc THEN [loaders[l] EXCEPT !.parked = FALSE]
                       ELSE loaders[l]]

\* PrototypesPlugin::build, on an App that does not have the plugin: the
\* resources are put into the World, the loader and the system are added.
AddPlugin ==
    /\ Alive
    /\ tasks.registering = None
    /\ resources = {}
    /\ resources' = Resources
    /\ ret' = Called("add_plugins", Unit)
    /\ UNCHANGED <<registry, events, loadVars, panicked, running, registries, server,
                   dependencies, assets, asset_events, loading_prototypes_handles, log,
                   schemaVars>>

\* App::register_prototype::<D> is called (lib.rs 129), on any App, built
\* or running: the main thread enters register_type, which asks for the
\* write lock of the Type Registry.  The call takes its locks one after the
\* other and holds none in between, so the loader tasks run between its
\* steps; the main thread does nothing else until the call has returned.
RegisterPrototype(D) ==
    /\ Alive
    /\ tasks.registering = None
    /\ tasks' = [tasks EXCEPT !.registering = Registering(D, "register_type")]
    /\ UNCHANGED <<type_registry, prototype_type_registry, regVars, appVars, schemaVars>>

\* register_type::<Prototype<D>> (lib.rs 130) gets the write lock of the
\* Type Registry, which waits until no loader holds it for reading, writes
\* the registration and drops the lock.
RegisterTypeStep(D) ==
    /\ Alive
    /\ tasks.registering = Registering(D, "register_type")
    /\ RwLock_write(TypeRegistryReaders(tasks))
    /\ type_registry' = type_registry \cup {D}
    /\ tasks' = [tasks EXCEPT !.registering = Registering(D, "resources"),
                              !.loaders = RwLock_unlock(@, "read")]
    /\ UNCHANGED <<prototype_type_registry, regVars, appVars, schemaVars>>

\* The registry of D and the schema of Prototype<D> (lib.rs 132-152), both
\* resources of the World, which only the main thread touches.  Without the
\* PrototypeRegistries or the PrototypesSchemas resource the call writes an
\* error and returns with what it did until then.  A stack overflow in the
\* schema generation aborts the process where it stands: schema_log keeps
\* the titles the call inserted and whether it overflowed.
RegisterResourcesStep(D) ==
    LET r == register_prototype_schemas(schemas, D)
        returned == [written |-> <<>>, overflow |-> FALSE]
    IN  /\ Alive
        /\ tasks.registering = Registering(D, "resources")
        /\ IF "PrototypeRegistries" \notin resources
           THEN /\ log' = log \cup {"PrototypeRegistries resource not found"}
                /\ schema_log' = returned
                /\ tasks' = [tasks EXCEPT !.registering = None]
                /\ UNCHANGED <<registries, schemas>>
           ELSE /\ registries' = PrototypeRegistries_new_registry(registries, D)
                /\ IF "PrototypesSchemas" \notin resources
                   THEN /\ log' = log \cup {"PrototypesSchemas resource not found"}
                        /\ schema_log' = returned
                        /\ tasks' = [tasks EXCEPT !.registering = None]
                        /\ UNCHANGED schemas
                   ELSE /\ schemas' = r.schemas
                        /\ schema_log' = [written |-> r.written, overflow |-> r.overflow]
                        /\ tasks' = IF r.overflow THEN tasks
                                    ELSE [tasks EXCEPT !.registering = Registering(D, "write")]
                        /\ log' = log
        /\ UNCHANGED <<type_registry, prototype_type_registry, regVars, resources, panicked,
                       running, server, dependencies, assets, asset_events,
                       loading_prototypes_handles>>

\* The end of register_prototype (lib.rs 154-162): write().insert(
\* prototype_name, TypeId) under the write lock of the Prototype Type
\* Registry, which waits until no loader holds it for reading; an error is
\* written when the resource is not there.  The call returns.
RegisterDiscriminantStep(D) ==
    /\ Alive
    /\ tasks.registering = Registering(D, "write")
    /\ IF "AppPrototypeTypeRegistry" \in resources
       THEN /\ RwLock_write(PrototypeTypeRegistryReaders(tasks))
            /\ prototype_type_registry' =
                    MapPut(prototype_type_registry, prototype_name(D), D)
            /\ log' = log
       ELSE /\ log' = log \cup {"AppPrototypeTypeRegistry resource not found"}
            /\ UNCHANGED prototype_type_registry
    /\ tasks' = [tasks EXCEPT !.registering = None,
                              !.loaders = RwLock_unlock(@, "registry")]
    /\ UNCHANGED <<type_registry, regVars, resources, panicked, running, registries, server,
                   dependencies, assets, asset_events, loading_prototypes_handles, schemaVars>>

-----------------------------------------------------------------------------
(* The registry as a state machine: systems holding                        *)
(* ResMut<PrototypeRegistry<P>>, RegMut<P> or Reg<P> run one at a time,    *)
(* as long as the process runs.                                            *)

Insert(p) ==
    LET r == PrototypeRegistry_insert(registry, p)
    IN  /\ Alive
        /\ registry' = r.reg
        /\ ret' = Called("insert", r.ret)
        /\ UNCHANGED <<events, loadVars, appVars, schemaVars>>

Get(id) ==
    /\ Alive
    /\ ret' = Called("get", PrototypeRegistry_get(registry, id))
    /\ UNCHANGED <<registry, events, loadVars, appVars, schemaVars>>

GetByName(n) ==
    /\ Alive
    /\ ret' = Called("get_by_name", PrototypeRegistry_get_by_name(registry, n))
    /\ UNCHANGED <<registry, events, loadVars, appVars, schemaVars>>

GetMut(id) ==
    /\ Alive
    /\ ret' = Called("get_mut", PrototypeRegistry_get_mut(registry, id))
    /\ UNCHANGED <<registry, events, loadVars, appVars, schemaVars>>

GetMutByName(n) ==
    /\ Alive
    /\ ret' = Called("get_mut_by_name", PrototypeRegistry_get_mut_by_name(registry, n))
    /\ UNCHANGED <<registry, events, loadVars, appVars, schemaVars>>

Remove(id) ==
    LET r == PrototypeRegistry_remove(registry, id)
    IN  /\ Alive
        /\ registry' = r.reg
        /\ ret' = Called("remove", r.ret)
        /\ UNCHANGED <<events, loadVars, appVars, schemaVars>>

RemoveByName(n) ==
    LET r == PrototypeRegistry_remove_by_name(registry, n)
    IN  /\ Alive
        /\ registry' = r.reg
        /\ ret' = Called("remove_by_name", r.ret)
        /\ UNCHANGED <<events, loadVars, appVars, schemaVars>>

Clear ==
    /\ Alive
    /\ registry' = PrototypeRegistry_clear(registry)
    /\ ret' = Called("clear", Unit)
    /\ UNCHANGED <<events, loadVars, appVars, schemaVars>>

RegMutInsert(p) ==
    /\ Alive
    /\ LET r == RegMut_insert(registry, events, p)
       IN  /\ Len(r.events) <= MaxPending
           /\ registry' = r.reg
           /\ events' = r.events
           /\ ret' = Called("RegMut::insert", r.ret)
    /\ UNCHANGED <<loadVars, appVars, schemaVars>>

RegMutRemove(id) ==
    /\ Alive
    /\ LET r == RegMut_remove(registry, events, id)
       IN  /\ Len(r.events) <= MaxPending
           /\ registry' = r.reg
           /\ events' = r.events
           /\ ret' = Called("RegMut::remove", r.ret)
    /\ UNCHANGED <<loadVars, appVars, schemaVars>>

RegMutRemoveByName(n) ==
    /\ Alive
    /\ LET r == RegMut_remove_by_name(registry, events, n)
       IN  /\ Len(r.events) <= MaxPending
           /\ registry' = r.reg
           /\ events' = r.events
           /\ ret' = Called("RegMut::remove_by_name", r.ret)
    /\ UNCHANGED <<loadVars, appVars, schemaVars>>

\* The consumer system runs: EventReader::read hands it every event it has
\* not read yet.  The panic of an unwrap (basic.rs 39, 52) ends the process
\* where it stands: no system runs after it and nothing is read any more.
ReadEvents ==
    /\ Alive
    /\ events # <<>>
    /\ \E icons \in SUBSET Ids :
            LET res == on_new_sword(registry, events, icons)
            IN  /\ ret' = Called("on_new_sword", res)
                /\ panicked' = (res.tag = "panic")
                /\ events' = IF res.tag = "panic" THEN events ELSE <<>>
    /\ UNCHANGED <<registry, loadVars, resources, running, registries, server,
                   dependencies, assets, asset_events, loading_prototypes_handles, log,
                   schemaVars>>

NextReg ==
    \/ \E p \in Prototypes : Insert(p)
    \/ \E id \in Ids : Get(id)
    \/ \E n \in Names : GetByName(n)
    \/ \E id \in Ids : GetMut(id)
    \/ \E n \in Names : GetMutByName(n)
    \/ \E id \in Ids : Remove(id)
    \/ \E n \in Names : RemoveByName(n)
    \/ Clear
    \/ \E p \in Prototypes : RegMutInsert(p)
    \/ \E id \in Ids : RegMutRemove(id)
    \/ \E n \in Names : RegMutRemoveByName(n)
    \/ ReadEvents

SpecReg == Init /\ [][NextReg]_vars

\* The slices handed to insert_many: two prototypes of the same id with
\* different data, and one of another id.
MaxSlice == 3
SlicePrototypes == {NamedProto(Name_a, 1), NamedProto(Name_a, 2), NamedProto(Name_b, 1)}
Slices == SeqsUpTo(SlicePrototypes, MaxSlice)

\* insert_many(&prototypes); ret keeps the slice and the registry of before.
InsertMany(prototypes) ==
    LET r == PrototypeRegistry_insert_many(registry, prototypes)
    IN  /\ Alive
        /\ registry' = r.reg
        /\ ret' = Called("insert_many",
                         [prototypes |-> prototypes, before |-> registry, ret |-> r.ret])
        /\ UNCHANGED <<events, loadVars, appVars, schemaVars>>

\* ids() and prototypes(), each iterated to its end over the same table,
\* whose order is any.
Iterate ==
    /\ Alive
    /\ \E order \in IterOrders(registry) :
            ret' = Called("ids", [ids |-> PrototypeRegistry_ids(registry, order),
                                 prototypes |-> PrototypeRegistry_prototypes(registry, order)])
    /\ UNCHANGED <<registry, events, loadVars, appVars, schemaVars>>

NextMany ==
    \/ \E p \in Prototypes : Insert(p)
    \/ \E ps \in Slices : InsertMany(ps)
    \/ \E id \in Ids : Get(id)
    \/ \E id \in Ids : Remove(id)
    \/ \E n \in Names : RemoveByName(n)
    \/ Clear
    \/ Iterate

SpecMany == Init /\ [][NextMany]_vars

-----------------------------------------------------------------------------
(* The application: PrototypeServer::load_prototypes asks the asset server *)
(* for a document, the asset server runs PrototypesAssetLoader::load on    *)
(* its bytes and loads the assets its handles name, and the system         *)
(* on_prototypes_asset_loaded inserts the records of a loaded document.    *)

\* Longest queue of AssetEvent<PrototypesAsset> between two runs of the system.
MaxAssetEvents == 2

AppTypeIds == {"Sword"}

\* The documents the application asks for.
DocPath2 == <<"assets", "protos", "axe.proto">>
DocPaths == <<DocPath, DocPath2>>

\* The asset events kept for the next run of the system: MaxAssetEvents for
\* each document the asset server was asked for.
EventsBound(srv) ==
    LET asked == Cardinality({i \in 1..Len(DocPaths) : DocPaths[i] \in DOMAIN srv})
    IN  MaxAssetEvents * (IF asked = 0 THEN 1 ELSE asked)

\* What the bytes of a document file may be when the loader reads it.
AppDocs ==
    {[kind |-> "object", items |-> <<SwordA>>],
     JArray(<<SwordA2, SwordB, SwordA>>),
     JArray(<<NoNameKey, SwordB>>),
     InvalidJson}

\* The documents of gems: handles that name the same icon, a root-relative
\* icon, and a gem that fails after its glow was visited.
GemDocs ==
    {JArray(<<GemA>>),
     [kind |-> "object", items |-> <<GemB>>],
     [kind |-> "object", items |-> <<GemBadIcon>>]}

AssetEvent(kind, id) == [kind |-> kind, id |-> id]

\* Whether every asset of the dependencies deps is loaded.
DependenciesLoaded(deps, srv) ==
    \A h \in deps : h \in DOMAIN srv /\ srv[h] = "Loaded"

\* The Prototype<D> made of a DynamicPrototype: the default instance with
\* `name`, `tags` and `data` applied.
ApplyDynamic_default_tags(dp) ==
    [name |-> dp.name, tags |-> <<>>, data |-> dp.proto]

ApplyDynamic(dp) ==
    [name |-> dp.name, tags |-> dp.tags, data |-> dp.proto]

\* The inner loop of on_prototypes_asset_loaded over the records of one
\* asset; what insert_dyn returns is not looked at.
RECURSIVE InsertRecords(_, _, _, _)
InsertRecords(st, prototypes, treg, j) ==
    IF j > Len(prototypes) THEN st
    ELSE LET ty == prototypes[j][1]
             dp == prototypes[j][2]
         IN  IF ty \notin treg
             THEN InsertRecords([st EXCEPT !.log = @ \cup {"Type not found in registry"}],
                                prototypes, treg, j + 1)
             ELSE LET r == PrototypeRegistries_insert_dyn(
                               st.registries, ty, dp.name.id, ApplyDynamic(dp))
                  IN  InsertRecords([st EXCEPT !.registries = r.regs],
                                    prototypes, treg, j + 1)

\* The loop of on_prototypes_asset_loaded over the events read.
RECURSIVE ReadAssetEvents(_, _, _, _)
ReadAssetEvents(st, evs, treg, i) ==
    IF i > Len(evs) THEN st
    ELSE IF evs[i].kind # "LoadedWithDependencies"
         THEN ReadAssetEvents(st, evs, treg, i + 1)
    ELSE IF evs[i].id \notin DOMAIN st.assets
         THEN ReadAssetEvents([st EXCEPT !.log = @ \cup {"Asset not found"}],
                              evs, treg, i + 1)
    ELSE LET id == evs[i].id
             taken == [st EXCEPT !.assets = MapDel(@, id),
                                 !.handles = @ \ {id},
                                 !.removed = Append(@, id)]
         IN  ReadAssetEvents(InsertRecords(taken, st.assets[id], treg, 1),
                             evs, treg, i + 1)

\* the records are inserted for every event of the asset, whatever its kind.
on_prototypes_asset_loaded_any_event(evs, as, regs, handles, treg) ==
    ReadAssetEvents([assets |-> as, registries |-> regs, handles |-> handles,
                     log |-> {}, removed |-> <<>>],
                    [i \in 1..Len(evs) |-> AssetEvent("LoadedWithDependencies", evs[i].id)],
                    treg, 1)

\* a Modified event evicts the records of every registry.
on_prototypes_asset_loaded_evicting(evs, as, regs, handles, treg) ==
    ReadAssetEvents([assets |-> as,
                     registries |-> IF \E i \in 1..Len(evs) : evs[i].kind = "Modified"
                                    THEN [t \in DOMAIN regs |-> EmptyMap] ELSE regs,
                     handles |-> handles, log |-> {}, removed |-> <<>>],
                    evs, treg, 1)

\* the records of each asset are inserted into the registries as they were
\* when the run started, and the outcomes are merged, the later over the
\* earlier: the inserts are not serialized.
on_prototypes_asset_loaded_unserialized(evs, as, regs, handles, treg) ==
    LET st0 == [assets |-> as, registries |-> regs, handles |-> handles,
                log |-> {}, removed |-> <<>>]
        r == ReadAssetEvents(st0, evs, treg, 1)
        RECURSIVE Merge(_, _)
        Merge(acc, i) ==
            IF i > Len(evs) THEN acc
            ELSE IF evs[i].kind = "LoadedWithDependencies" /\ evs[i].id \in DOMAIN as
                 THEN LET own == InsertRecords(st0, as[evs[i].id], treg, 1).registries
                      IN  Merge([ty \in DOMAIN acc |->
                                    [id \in DOMAIN acc[ty] \cup DOMAIN own[ty] |->
                                        IF id \in DOMAIN own[ty] THEN own[ty][id]
                                        ELSE acc[ty][id]]],
                                i + 1)
                 ELSE Merge(acc, i + 1)
    IN  [r EXCEPT !.registries = Merge(regs, 1)]

\* the handle of every asset an event names is dropped, whatever the event
\* and whether or not the asset was found.
on_prototypes_asset_loaded_dropping_handles(evs, as, regs, handles, treg) ==
    LET r == ReadAssetEvents([assets |-> as, registries |-> regs, handles |-> handles,
                              log |-> {}, removed |-> <<>>],
                             evs, treg, 1)
    IN  [r EXCEPT !.handles = handles \ {evs[i].id : i \in 1..Len(evs)}]

on_prototypes_asset_loaded(evs, as, regs, handles, treg) ==
    ReadAssetEvents([assets |-> as, registries |-> regs, handles |-> handles,
                     log |-> {}, removed |-> <<>>],
                    evs, treg, 1)

\* App::run: the App is built, its systems start to run.
Run ==
    /\ Alive
    /\ tasks.registering = None
    /\ ~running
    /\ running' = TRUE
    /\ ret' = Called("run", Unit)
    /\ UNCHANGED <<registry, events, loadVars, resources, panicked, registries, server,
                   dependencies, assets, asset_events, loading_prototypes_handles, log,
                   schemaVars>>

\* PrototypeServer::load_prototypes on the asset server, the load tasks
\* it has spawned and the handles of st: the asset server hands out a
\* handle at once and spawns a load task unless the asset is loading or
\* loaded; the handle is kept in LoadingPrototypesHandles.
PrototypeServer_load_prototypes(st, path) ==
    IF path \in DOMAIN st.server /\ st.server[path] # "Failed"
    THEN [st EXCEPT !.handles = @ \cup {path}]
    ELSE [server |-> MapPut(st.server, path, "Loading"),
          spawned |-> st.spawned \cup {path},
          handles |-> st.handles \cup {path}]

\* A system calls PrototypeServer::load_prototypes.
LoadPrototypes(path) ==
    LET r == PrototypeServer_load_prototypes(
                 [server |-> server, spawned |-> tasks.spawned,
                  handles |-> loading_prototypes_handles], path)
    IN  /\ Alive
        /\ tasks.registering = None
        /\ running
        /\ "LoadingPrototypesHandles" \in resources
        /\ loading_prototypes_handles' = r.handles
        /\ server' = r.server
        /\ tasks' = [tasks EXCEPT !.spawned = r.spawned]
        /\ ret' = Called("load_prototypes", Unit)
        /\ UNCHANGED <<registry, events, type_registry, prototype_type_registry, resources,
                       panicked, running, registries, dependencies, assets, asset_events,
                       log, schemaVars>>

PROTOTYPE_ASSET_EXTENSIONS == {<<"proto">>, <<"proto", "json">>}

\* AssetPath::get_full_extension of a file whose name is the parts between
\* its dots: what follows the first dot, None when the name has no dot.
get_full_extension(name) ==
    IF Len(name) < 2 THEN None ELSE Some(Tail(name))

\* The entries of a folder: the path of each, its name, and what
\* is_directory answers for it.
FolderEntry(file, name, is_directory) ==
    [file |-> file, name |-> name, is_directory |-> is_directory]

SwordFile == FolderEntry(DocPath, <<"sword", "proto", "json">>, Ok(FALSE))
AxeFile == FolderEntry(DocPath2, <<"axe", "proto">>, Ok(FALSE))
NotesFile == FolderEntry(<<"assets", "protos", "notes.txt">>, <<"notes", "txt">>, Ok(FALSE))
LongFile == FolderEntry(<<"assets", "protos", "big.axe.proto.json">>,
                        <<"big", "axe", "proto", "json">>, Ok(FALSE))
ReadmeFile == FolderEntry(<<"assets", "protos", "README">>, <<"README">>, Ok(FALSE))
OldDirectory == FolderEntry(<<"assets", "protos", "old.proto">>, <<"old", "proto">>, Ok(TRUE))
BrokenFile == FolderEntry(<<"assets", "protos", "gone.proto">>, <<"gone", "proto">>, Err("io"))

\* What the asset source answers for a folder: whether the source of the
\* path exists, and the entries read_directory streams, or its error.
Folder(source, read_directory) == [source |-> source, read_directory |-> read_directory]

Folders ==
    {Folder(None, Err("no source")),
     Folder(Some("assets"), Err("not found")),
     Folder(Some("assets"), Ok(<<>>)),
     Folder(Some("assets"), Ok(<<SwordFile, OldDirectory, NotesFile, AxeFile, ReadmeFile>>)),
     Folder(Some("assets"), Ok(<<LongFile, AxeFile>>)),
     Folder(Some("assets"), Ok(<<SwordFile, BrokenFile, AxeFile>>))}

\* The loop over the stream of the folder (lib.rs 247-264) from the i-th
\* entry on: the files pushed, or the panic of the unwrap of is_directory.
RECURSIVE PrototypeFilesFrom(_, _, _)
PrototypeFilesFrom(folder, files, i) ==
    IF i > Len(folder) THEN Ok(files)
    ELSE IF folder[i].is_directory.tag = "Err" THEN Panic
    ELSE IF folder[i].is_directory.val THEN PrototypeFilesFrom(folder, files, i + 1)
    ELSE LET full_extension == get_full_extension(folder[i].name)
         IN  IF full_extension = None THEN PrototypeFilesFrom(folder, files, i + 1)
             ELSE IF full_extension.val \in PROTOTYPE_ASSET_EXTENSIONS
                  THEN PrototypeFilesFrom(folder, Append(files, folder[i].file), i + 1)
                  ELSE PrototypeFilesFrom(folder, files, i + 1)

\* The loop of load_prototypes over the files (lib.rs 270-272).
RECURSIVE LoadFilesFrom(_, _, _)
LoadFilesFrom(st, files, i) ==
    IF i > Len(files) THEN st
    ELSE LoadFilesFrom(PrototypeServer_load_prototypes(st, files[i]), files, i + 1)

\* PrototypeServer::load_prototypes_folder: the unwrap of the source, of
\* read_directory and of every is_directory panics on an error; otherwise
\* load_prototypes is called for every file, no directory, whose full
\* extension is one of PROTOTYPE_ASSET_EXTENSIONS.
PrototypeServer_load_prototypes_folder(st, f) ==
    IF f.source = None THEN Panic
    ELSE IF f.read_directory.tag = "Err" THEN Panic
    ELSE LET files == PrototypeFilesFrom(f.read_directory.val, <<>>, 1)
         IN  IF files = Panic THEN Panic
             ELSE Ok(LoadFilesFrom(st, files.val, 1))

\* A system calls PrototypeServer::load_prototypes_folder on a folder the
\* asset source answers f for; a panic ends the process.
LoadPrototypesFolder(f) ==
    LET r == PrototypeServer_load_prototypes_folder(
                 [server |-> server, spawned |-> tasks.spawned,
                  handles |-> loading_prototypes_handles], f)
    IN  /\ Alive
        /\ tasks.registering = None
        /\ running
        /\ "LoadingPrototypesHandles" \in resources
        /\ IF r = Panic
           THEN /\ panicked' = TRUE
                /\ ret' = Called("load_prototypes_folder", Panic)
                /\ UNCHANGED <<server, tasks, loading_prototypes_handles>>
           ELSE /\ server' = r.val.server
                /\ tasks' = [tasks EXCEPT !.spawned = r.val.spawned]
                /\ loading_prototypes_handles' = r.val.handles
                /\ ret' = Called("load_prototypes_folder", Unit)
                /\ UNCHANGED panicked
        /\ UNCHANGED <<registry, events, type_registry, prototype_type_registry, resources,
                       running, registries, dependencies, assets, asset_events, log,
                       schemaVars>>

\* PrototypeTypeRegistry::read on the loader's clone of the Arc: the map the
\* application writes to.
PrototypeTypeRegistry_read(internal) == internal

\* A loader task runs PrototypesAssetLoader::load on the document at path
\* up to its first lock (prototype.rs 103-106): read_to_end has given the
\* bytes d and they are parsed; load returns at once with the error of a
\* document that does not parse, before any registry is read.  For a path
\* the asset server tracks, the task is one it has spawned; a load of the
\* path that is still under way goes on beside it.  ret holds no value of
\* the load until the asset server takes one.
LoaderReads(l, path, d) ==
    LET on_disk_prototypes == OnDiskPrototypes_deserialize(d)
        task == [IdleTask EXCEPT !.path = path, !.doc = d,
                                 !.on_disk_prototypes = on_disk_prototypes]
    IN  /\ Alive
        /\ tasks.loaders[l].pc = "idle"
        /\ path \in DOMAIN server => path \in tasks.spawned
        /\ tasks' = [tasks EXCEPT
                        !.spawned = @ \ {path},
                        !.loaders[l] =
                            IF on_disk_prototypes.tag = "Err"
                            THEN [task EXCEPT !.pc = "returned",
                                              !.out = PrototypesAssetLoader_load(
                                                          d, prototype_type_registry,
                                                          type_registry, path)]
                            ELSE [task EXCEPT !.pc = "read"]]
        /\ ret' = Called("load", None)
        /\ UNCHANGED <<registry, events, type_registry, prototype_type_registry, appVars,
                       schemaVars>>

\* The call of read() of a loader (prototype.rs 227, 228) finds the
\* register_prototype call waiting for the write lock of the same registry
\* and is queued behind it: std's RwLock leaves it to the platform whether a
\* waiting writer holds back the readers that come after it.
ReadWaitsBehindWriter(l) ==
    /\ Alive
    /\ ~tasks.loaders[l].parked
    /\ IF tasks.loaders[l].pc = "read" THEN TypeRegistryWriter(tasks)
       ELSE /\ tasks.loaders[l].pc = "registry"
            /\ PrototypeTypeRegistryWriter(tasks, resources)
    /\ tasks' = [tasks EXCEPT !.loaders[l].parked = TRUE]
    /\ UNCHANGED <<type_registry, prototype_type_registry, regVars, appVars, schemaVars>>

\* self.type_registry.read() (prototype.rs 227) returns with the guard:
\* completed keeps the discriminants whose register_prototype call had
\* returned by then.
TakesTypeRegistryRead(l) ==
    /\ Alive
    /\ tasks.loaders[l].pc = "read"
    /\ RwLock_read(TypeRegistryReaders(tasks), tasks.loaders[l].parked,
                   TypeRegistryWriter(tasks))
    /\ tasks' = [tasks EXCEPT !.loaders[l].pc = "registry",
                              !.loaders[l].parked = FALSE,
                              !.loaders[l].completed = DOMAIN prototype_type_registry]
    /\ UNCHANGED <<type_registry, prototype_type_registry, regVars, appVars, schemaVars>>

\* self.prototype_type_registry.read() (prototype.rs 228) returns with the
\* guard, the guard of the Type Registry still held.
TakesPrototypeTypeRegistryRead(l) ==
    /\ Alive
    /\ tasks.loaders[l].pc = "registry"
    /\ RwLock_read(PrototypeTypeRegistryReaders(tasks), tasks.loaders[l].parked,
                   PrototypeTypeRegistryWriter(tasks, resources))
    /\ tasks' = [tasks EXCEPT !.loaders[l].pc = "both",
                              !.loaders[l].parked = FALSE]
    /\ UNCHANGED <<type_registry, prototype_type_registry, regVars, appVars, schemaVars>>

\* The asset server with the loads of deps started: a path it does not
\* know starts to load, a path it knows keeps its state.
NestedLoader_load(srv, deps) ==
    [h \in DOMAIN srv \cup deps |-> IF h \in DOMAIN srv THEN srv[h] ELSE "Loading"]

\* the loader inserts the records it converted into the registries itself.
Converts_inserting(l) ==
    LET t == tasks.loaders[l]
        ptr == PrototypeTypeRegistry_read(prototype_type_registry)
        out == PrototypesAssetLoader_load(t.doc, ptr, type_registry, t.path)
        deps == LoadContext_dependencies(t.on_disk_prototypes.val, ptr, type_registry, t.path)
    IN  /\ Alive
        /\ t.pc = "both"
        /\ tasks' = [tasks EXCEPT !.loaders[l].pc = "returned",
                                  !.loaders[l].converted =
                                      [i \in 1..Len(t.on_disk_prototypes.val) |->
                                          ConvertOnDisk(t.on_disk_prototypes.val[i], ptr,
                                                        type_registry, t.path)],
                                  !.loaders[l].dependencies = deps,
                                  !.loaders[l].out = out]
        /\ server' = NestedLoader_load(server, deps)
        /\ log' = log \cup FilterMap_errors(t.on_disk_prototypes.val, ptr, type_registry,
                                             t.path)
        /\ registries' = InsertRecords([registries |-> registries, log |-> {}],
                                       out.val, type_registry, 1).registries
        /\ UNCHANGED <<type_registry, prototype_type_registry, regVars, resources, panicked,
                       running, dependencies, assets, asset_events,
                       loading_prototypes_handles, schemaVars>>

\* The filter_map over the records under both guards, which are dropped when
\* load returns (prototype.rs 231-271): what the closure gives for each
\* record, the error it writes for each record it drops, the loads started
\* through the load context while the payloads were visited, and the asset
\* returned.
Converts(l) ==
    LET t == tasks.loaders[l]
        ptr == PrototypeTypeRegistry_read(prototype_type_registry)
        out == PrototypesAssetLoader_load(t.doc, ptr, type_registry, t.path)
        deps == LoadContext_dependencies(t.on_disk_prototypes.val, ptr, type_registry, t.path)
    IN  /\ Alive
        /\ t.pc = "both"
        /\ tasks' = [tasks EXCEPT !.loaders[l].pc = "returned",
                                  !.loaders[l].converted =
                                      [i \in 1..Len(t.on_disk_prototypes.val) |->
                                          ConvertOnDisk(t.on_disk_prototypes.val[i], ptr,
                                                        type_registry, t.path)],
                                  !.loaders[l].dependencies = deps,
                                  !.loaders[l].out = out]
        /\ server' = NestedLoader_load(server, deps)
        /\ log' = log \cup FilterMap_errors(t.on_disk_prototypes.val, ptr, type_registry,
                                             t.path)
        /\ UNCHANGED <<type_registry, prototype_type_registry, regVars, resources, panicked,
                       running, registries, dependencies, assets, asset_events,
                       loading_prototypes_handles, schemaVars>>

\* The events of the documents that were waiting for their dependencies and
\* have them all loaded in srv.
RECURSIVE NowWithDependencies(_, _, _, _)
NowWithDependencies(srv, old, deps, i) ==
    IF i > Len(DocPaths) THEN <<>>
    ELSE (IF /\ DocPaths[i] \in DOMAIN old /\ old[DocPaths[i]] = "Loaded"
             /\ DocPaths[i] \in DOMAIN deps
             /\ DependenciesLoaded(deps[DocPaths[i]], srv)
          THEN <<AssetEvent("LoadedWithDependencies", DocPaths[i])>> ELSE <<>>)
             \o NowWithDependencies(srv, old, deps, i + 1)

\* The asset server takes what the load of task l returned, on the main
\* thread and some time after the return.  The result of a load it does
\* not track (it was not asked for the path, or has forgotten it) is
\* dropped.  An error leaves no asset; otherwise the asset is stored with
\* the dependencies of its load context, and LoadedWithDependencies is sent
\* once they are all loaded.
AssetServerTakes(l) ==
    LET t == tasks.loaders[l]
    IN  /\ Alive
        /\ tasks.registering = None
        /\ t.pc = "returned"
        /\ tasks' = [tasks EXCEPT !.loaders[l] = IdleTask]
        /\ ret' = Called("load", t.out)
        /\ IF t.path \notin DOMAIN server
           THEN UNCHANGED <<server, dependencies, assets, asset_events>>
           ELSE IF t.out.tag = "Err"
           THEN /\ server' = MapPut(server, t.path, "Failed")
                /\ UNCHANGED <<dependencies, assets, asset_events>>
           ELSE LET done == DependenciesLoaded(t.dependencies, server)
                IN  /\ server' = MapPut(server, t.path,
                                    IF done THEN "LoadedWithDependencies" ELSE "Loaded")
                    /\ dependencies' = MapPut(dependencies, t.path, t.dependencies)
                    /\ assets' = MapPut(assets, t.path, t.out.val)
                    /\ asset_events' =
                          asset_events
                             \o <<AssetEvent(IF t.path \in DOMAIN assets
                                             THEN "Modified" ELSE "Added", t.path)>>
                             \o (IF done
                                 THEN <<AssetEvent("LoadedWithDependencies", t.path)>>
                                 ELSE <<>>)
                    /\ Len(asset_events') <= EventsBound(server')
        /\ UNCHANGED <<registry, events, type_registry, prototype_type_registry, resources,
                       panicked, running, registries, loading_prototypes_handles, log,
                       schemaVars>>

\* An asset a document depends on finishes loading.
DependencyLoaded(dep) ==
    /\ Alive
    /\ tasks.registering = None
    /\ dep \in DOMAIN server /\ server[dep] = "Loading"
    /\ \A i \in 1..Len(DocPaths) : dep # DocPaths[i]
    /\ LET srv == MapPut(server, dep, "Loaded")
           evs == NowWithDependencies(srv, server, dependencies, 1)
       IN  /\ server' = [h \in DOMAIN srv |->
                            IF \E i \in 1..Len(evs) : evs[i].id = h
                            THEN "LoadedWithDependencies" ELSE srv[h]]
           /\ asset_events' = asset_events \o evs
           /\ Len(asset_events') <= EventsBound(server')
    /\ ret' = Called("asset server", Unit)
    /\ UNCHANGED <<registry, events, loadVars, resources, panicked, running, registries,
                   dependencies, assets, loading_prototypes_handles, log, schemaVars>>

\* The file of a document the asset server tracks changes: the asset server
\* spawns a load task for it, whatever the state of the asset; a load of
\* the document that is under way is not stopped and its result is taken
\* like any other.  A task that has not started to read yet will read the
\* new bytes, so no second task is spawned beside it.
SourceModified(path) ==
    /\ Alive
    /\ tasks.registering = None
    /\ path \in DOMAIN server
    /\ path \notin tasks.spawned
    /\ server' = MapPut(server, path, "Loading")
    /\ tasks' = [tasks EXCEPT !.spawned = @ \cup {path}]
    /\ ret' = Called("asset server", Unit)
    /\ UNCHANGED <<registry, events, type_registry, prototype_type_registry, resources,
                   panicked, running, registries, dependencies, assets, asset_events,
                   loading_prototypes_handles, log, schemaVars>>

\* One run of the system on_prototypes_asset_loaded over the events sent
\* since its last run.  Assets::remove sends a Removed event for the next
\* run, and the asset server forgets an asset whose handle was dropped.
OnPrototypesAssetLoaded ==
    /\ Alive
    /\ tasks.registering = None
    /\ Resources \subseteq resources
    /\ asset_events # <<>>
    /\ LET r == on_prototypes_asset_loaded(asset_events, assets, registries,
                                           loading_prototypes_handles, type_registry)
           kept == {g \in DOMAIN server : \A i \in 1..Len(r.removed) : r.removed[i] # g}
       IN  /\ assets' = r.assets
           /\ registries' = r.registries
           /\ loading_prototypes_handles' = r.handles
           /\ log' = log \cup r.log
           /\ asset_events' = [i \in 1..Len(r.removed) |-> AssetEvent("Removed", r.removed[i])]
           /\ server' = [h \in kept |-> server[h]]
           /\ dependencies' = [h \in DOMAIN dependencies \cap kept |-> dependencies[h]]
    /\ ret' = Called("on_prototypes_asset_loaded", Unit)
    /\ UNCHANGED <<registry, events, loadVars, resources, panicked, running, schemaVars>>

\* The documents the asset server was asked for.
Asked(srv) == {DocPaths[i] : i \in 1..Len(DocPaths)} \cap DOMAIN srv

-----------------------------------------------------------------------------
(* Loads of single documents, one at a time, beside register_prototype.    *)
(* Here and in the scenarios below each type is registered by one call,    *)
(* whose steps interleave with the loads; calls repeated for a type are    *)
(* followed in the scenario of the schema.  A reader queued behind a       *)
(* waiting writer only reads later what it would read anyway, and is       *)
(* followed in the scenario of the locks.                                  *)

NextLoad ==
    \/ \E D \in TypeIds \ type_registry : RegisterPrototype(D)
    \/ \E D \in TypeIds : RegisterTypeStep(D)
    \/ \E D \in TypeIds : RegisterResourcesStep(D)
    \/ \E D \in TypeIds : RegisterDiscriminantStep(D)
    \/ \E d \in Docs : LoaderReads("io1", DocPath, d)
    \/ TakesTypeRegistryRead("io1")
    \/ TakesPrototypeTypeRegistryRead("io1")
    \/ Converts("io1")
    \/ AssetServerTakes("io1")

SpecLoad == Init /\ [][NextLoad]_vars

-----------------------------------------------------------------------------
(* The application: a document of swords is asked for, loaded, changed and *)
(* loaded again, also while a load of it is under way, and the system runs *)
(* whenever events wait.                                                   *)

NextApp ==
    \/ \E D \in AppTypeIds \ type_registry : RegisterPrototype(D)
    \/ \E D \in AppTypeIds : RegisterTypeStep(D)
    \/ \E D \in AppTypeIds : RegisterResourcesStep(D)
    \/ \E D \in AppTypeIds : RegisterDiscriminantStep(D)
    \/ Run
    \/ LoadPrototypes(DocPath)
    \/ \E path \in Asked(server) \cap {DocPath} : \E d \in AppDocs : \E l \in Loaders : LoaderReads(l, path, d)
    \/ \E l \in Loaders : TakesTypeRegistryRead(l)
    \/ \E l \in Loaders : TakesPrototypeTypeRegistryRead(l)
    \/ \E l \in Loaders : Converts(l)
    \/ \E l \in Loaders : AssetServerTakes(l)
    \/ SourceModified(DocPath)
    \/ OnPrototypesAssetLoaded

SpecApp == Init /\ [][NextApp]_vars

-----------------------------------------------------------------------------
(* The application with a document of gems: what the handles of its        *)
(* records name is loaded by the asset server beside it.  Gem is           *)
(* registered while the application is built, as the example does, so no   *)
(* load runs beside the registration here.                                 *)

NextGems ==
    \/ ~running /\ \E D \in {"Gem"} \ type_registry : RegisterPrototype(D)
    \/ RegisterTypeStep("Gem")
    \/ RegisterResourcesStep("Gem")
    \/ RegisterDiscriminantStep("Gem")
    \/ Run
    \/ LoadPrototypes(DocPath)
    \/ \E path \in Asked(server) \cap {DocPath} : \E d \in GemDocs : LoaderReads("io1", path, d)
    \/ TakesTypeRegistryRead("io1")
    \/ TakesPrototypeTypeRegistryRead("io1")
    \/ Converts("io1")
    \/ AssetServerTakes("io1")
    \/ \E dep \in DOMAIN server : DependencyLoaded(dep)
    \/ SourceModified(DocPath)
    \/ OnPrototypesAssetLoaded

SpecGems == Init /\ [][NextGems]_vars

-----------------------------------------------------------------------------
(* Two documents that name the same sword, loaded side by side: the loads  *)
(* complete in any order, the system runs whenever events are waiting.     *)

LoadsDocs ==
    {[kind |-> "object", items |-> <<SwordA2>>],
     JArray(<<SwordB, SwordA>>)}

NextLoads ==
    \/ \E D \in {"Sword"} \ type_registry : RegisterPrototype(D)
    \/ RegisterTypeStep("Sword")
    \/ RegisterResourcesStep("Sword")
    \/ RegisterDiscriminantStep("Sword")
    \/ Run
    \/ \E i \in 1..Len(DocPaths) : LoadPrototypes(DocPaths[i])
    \/ \E f \in Folders : LoadPrototypesFolder(f)
    \/ \E l \in Loaders : \E path \in Asked(server) : \E d \in LoadsDocs : LoaderReads(l, path, d)
    \/ \E l \in Loaders : TakesTypeRegistryRead(l)
    \/ \E l \in Loaders : TakesPrototypeTypeRegistryRead(l)
    \/ \E l \in Loaders : Converts(l)
    \/ \E l \in Loaders : AssetServerTakes(l)
    \/ OnPrototypesAssetLoaded

SpecLoads == Init /\ [][NextLoads]_vars

-----------------------------------------------------------------------------
(* Documents of scrolls: strings in the string field that read like paths, *)
(* values in the handle field that are not strings, and a value in the     *)
(* string field that is no string beside a seal that is a path.            *)

ScrollA == JObject(<<"scroll">>, <<Name_a>>, <<>>, [text |-> JString(0), seal |-> JString(2)])
ScrollPathText == JObject(<<"scroll">>, <<Name_b>>, <<>>, [text |-> JString(1), seal |-> JString(2)])
ScrollBadSeal == JObject(<<"scroll">>, <<Name_a>>, <<>>, [text |-> JString(0), seal |-> JInt(1)])
ScrollBadText == JObject(<<"scroll">>, <<Name_a>>, <<>>, [text |-> JInt(1), seal |-> JString(2)])

RefDocs ==
    {[kind |-> "object", items |-> <<ScrollA>>],
     [kind |-> "object", items |-> <<ScrollBadSeal>>],
     [kind |-> "object", items |-> <<ScrollBadText>>],
     JArray(<<ScrollBadSeal, ScrollPathText>>),
     JArray(<<ScrollPathText, ScrollA>>)}

NextRefs ==
    \/ \E D \in {"Scroll"} \ type_registry : RegisterPrototype(D)
    \/ RegisterTypeStep("Scroll")
    \/ RegisterResourcesStep("Scroll")
    \/ RegisterDiscriminantStep("Scroll")
    \/ Run
    \/ LoadPrototypes(DocPath)
    \/ \E path \in Asked(server) \cap {DocPath} : \E d \in RefDocs : LoaderReads("io1", path, d)
    \/ TakesTypeRegistryRead("io1")
    \/ TakesPrototypeTypeRegistryRead("io1")
    \/ Converts("io1")
    \/ AssetServerTakes("io1")
    \/ \E dep \in DOMAIN server : DependencyLoaded(dep)
    \/ SourceModified(DocPath)
    \/ OnPrototypesAssetLoaded

SpecRefs == Init /\ [][NextRefs]_vars

-----------------------------------------------------------------------------
(* register_prototype beside running loader tasks.  Both registries sit    *)
(* behind a reader-writer lock: a write waits until no read guard is held, *)
(* and any number of read guards are held at once.  Whether a call of      *)
(* read() that arrives while a writer waits is let through or queued       *)
(* behind the writer is left to the platform by std::sync::RwLock: both    *)
(* happen here.                                                            *)

LockDocs ==
    {[kind |-> "object", items |-> <<SwordA>>],
     JArray(<<SwordB, EffectA>>),
     JArray(<<EffectA, UnknownA>>),
     JArray(<<EffectNull, EffectA>>)}

NextLock ==
    \/ \E D \in TypeIds \ type_registry : RegisterPrototype(D)
    \/ \E D \in TypeIds : RegisterTypeStep(D)
    \/ \E D \in TypeIds : RegisterResourcesStep(D)
    \/ \E D \in TypeIds : RegisterDiscriminantStep(D)
    \/ \E l \in Loaders, d \in LockDocs : LoaderReads(l, DocPath, d)
    \/ \E l \in Loaders : ReadWaitsBehindWriter(l)
    \/ \E l \in Loaders : TakesTypeRegistryRead(l)
    \/ \E l \in Loaders : TakesPrototypeTypeRegistryRead(l)
    \/ \E l \in Loaders : Converts(l)
    \/ \E l \in Loaders : AssetServerTakes(l)

SpecLock == Init /\ [][NextLock]_vars

-----------------------------------------------------------------------------
(* The schema of an application under construction: the plugin is added   *)
(* before, between or after the register_prototype calls, and the schema   *)
(* is emitted.                                                             *)

MaxSchemaDocLen == 2

SchemaTypeIds == {"Sword", "Gem", "Tree"}

\* App::get_prototypes_schemas, the HashMap iterating in the order `keys`;
\* World::resource panics when the plugin has not put the schemas there.
GetPrototypesSchemas(keys) ==
    /\ Alive
    /\ tasks.registering = None
    /\ IF "PrototypesSchemas" \in resources
       THEN /\ ret' = Called("get_prototypes_schemas", get_prototypes_schemas(schemas, keys))
            /\ UNCHANGED panicked
       ELSE /\ ret' = Called("get_prototypes_schemas", Panic)
            /\ panicked' = TRUE
    /\ UNCHANGED <<registry, events, loadVars, resources, running, registries, server,
                   dependencies, assets, asset_events, loading_prototypes_handles, log,
                   schemaVars>>

NextSchema ==
    \/ AddPlugin
    \/ \E D \in SchemaTypeIds : RegisterPrototype(D)
    \/ \E D \in SchemaTypeIds : RegisterTypeStep(D)
    \/ \E D \in SchemaTypeIds : RegisterResourcesStep(D)
    \/ \E D \in SchemaTypeIds : RegisterDiscriminantStep(D)
    \/ \E keys \in KeyOrders(DOMAIN schemas.prototypes) : GetPrototypesSchemas(keys)

SpecSchema == InitBare /\ [][NextSchema]_vars

\* The two shapes of the example, Effect holding an Option: prototypes are
\* registered, the schema is emitted, and documents are parsed.
ShapeTypeIds == {"Sword", "Effect"}

\* The elements of the lists of every length, and those that come alone or
\* beside a sword.
ShapeElems == {SwordA, EffectA, EffectNull, UnknownA, NoNameKey, JNumber}
LoneShapeElems == {SwordB, SwordBadPayload, NoTypeKey}

ShapeDocs ==
    {JArray(items) : items \in SeqsUpTo(ShapeElems, MaxSchemaDocLen)}
        \cup {JArray(<<e>>) : e \in LoneShapeElems}
        \cup {JArray(<<SwordA, e>>) : e \in LoneShapeElems}
        \cup {[kind |-> e.kind, items |-> <<e>>] : e \in ShapeElems \cup LoneShapeElems}
        \cup {InvalidJson}

NextShapes ==
    \/ \E D \in ShapeTypeIds \ type_registry : RegisterPrototype(D)
    \/ \E D \in ShapeTypeIds : RegisterTypeStep(D)
    \/ \E D \in ShapeTypeIds : RegisterResourcesStep(D)
    \/ \E D \in ShapeTypeIds : RegisterDiscriminantStep(D)
    \/ \E keys \in KeyOrders(DOMAIN schemas.prototypes) : GetPrototypesSchemas(keys)
    \/ \E d \in ShapeDocs : LoaderReads("io1", DocPath, d)
    \/ TakesTypeRegistryRead("io1")
    \/ TakesPrototypeTypeRegistryRead("io1")
    \/ Converts("io1")
    \/ AssetServerTakes("io1")

SpecShapes == Init /\ [][NextShapes]_vars

-----------------------------------------------------------------------------
(* The JsonSchema derive applied to structures with named fields.          *)

MaxFields == 2

FieldNames == <<"f1", "f2", "f3", "f4">>

\* The structures of up to MaxFields fields, each field a u32 or an
\* Option<u32> with any of the serde marks.
FieldsOfLen(n) ==
    {[i \in 1..n |-> Field(FieldNames[i], c[i].ty, c[i].skip, c[i].flatten, c[i].default)] :
        c \in [1..n -> [ty : {"u32", "Option<u32>"}, skip : BOOLEAN,
                        flatten : BOOLEAN, default : BOOLEAN]]}

Structs == UNION {FieldsOfLen(n) : n \in 0..MaxFields}

\* The schema #[derive(JsonSchema)] generates for the structure of the
\* build, with or without #[reflect(Deserialize)] on it (the macro expands
\* once, at compile time): ret keeps the structure derived and the schema
\* its json_schema returns.
DeriveJsonSchema(fields_named, do_reflect_deserialize) ==
    /\ ret.op # "json_schema_struct"
    /\ ret' = Called("json_schema_struct",
                     [fields_named |-> fields_named,
                      do_reflect_deserialize |-> do_reflect_deserialize,
                      schema |-> json_schema_struct(fields_named, do_reflect_deserialize)])
    /\ UNCHANGED <<registry, events, loadVars, appVars, schemaVars>>

NextDerive ==
    \E fields_named \in Structs : \E b \in BOOLEAN : DeriveJsonSchema(fields_named, b)

SpecDerive == Init /\ [][NextDerive]_vars

-----------------------------------------------------------------------------
(* The four kinds of identifier: PrototypeId<T> and ErasedPrototypeId are  *)
(* their hash; PrototypeName<T> and ErasedPrototypeName are an id and the  *)
(* retained name.                                                          *)

IdKinds == {"PrototypeId", "ErasedPrototypeId"}
NameKinds == {"PrototypeName", "ErasedPrototypeName"}

\* The names identifiers are built from: "a", "b" and "ab".
IdNames == Names \cup {<<97, 98>>}

\* The identifiers of each kind: from_name of every name and from_raw(0);
\* for the named kinds from_name of every name and, since both are Reflect
\* structures whose `name` field can be applied alone, every such
\* identifier with its name replaced by another.
IdentifierValues(kind) ==
    IF kind \in IdKinds
    THEN {PrototypeId_from_name(n) : n \in IdNames} \cup {PrototypeId_from_raw(ZeroHash)}
    ELSE {[PrototypeName_from_name(n) EXCEPT !.name = m] : n, m \in IdNames}

\* a derived PartialEq: every field is compared.
Identifier_eq_derived(kind, a, b) == a = b

\* PartialEq::eq of each kind: the hashes, the ids for the named kinds.
Identifier_eq(kind, a, b) ==
    IF kind \in IdKinds THEN a = b ELSE a.id = b.id

\* Hash::hash of each kind: what is written to the hasher.
Identifier_hash(kind, a) ==
    IF kind \in IdKinds THEN <<a>> ELSE <<a.id>>

\* The pairs <<to, from>> with a From impl: every kind from itself, the two
\* id kinds from each other, ErasedPrototypeId from either named kind, and
\* the two named kinds from each other.  PrototypeId<T> has no From of a
\* named kind.
Conversions ==
    {<<k, k>> : k \in IdKinds \cup NameKinds}
        \cup {<<"ErasedPrototypeId", "PrototypeId">>, <<"PrototypeId", "ErasedPrototypeId">>,
              <<"ErasedPrototypeId", "ErasedPrototypeName">>,
              <<"ErasedPrototypeId", "PrototypeName">>,
              <<"ErasedPrototypeName", "PrototypeName">>,
              <<"PrototypeName", "ErasedPrototypeName">>}

\* The From conversions between the kinds: from_raw of the hash between the
\* id kinds, the id of a named identifier for ErasedPrototypeId, the id
\* converted and the name moved between the named kinds.
Identifier_from(to, from, a) ==
    CASE to = from -> a
      [] to \in IdKinds /\ from \in IdKinds -> PrototypeId_from_raw(a)
      [] to = "ErasedPrototypeId" /\ from \in NameKinds -> PrototypeId_from_raw(a.id)
      [] to \in NameKinds /\ from \in NameKinds ->
            [id |-> PrototypeId_from_raw(a.id), name |-> a.name]

Eq(kind, a, b) ==
    /\ ret' = Called("eq", [kind |-> kind, a |-> a, b |-> b,
                            eq |-> Identifier_eq(kind, a, b),
                            hash |-> <<Identifier_hash(kind, a), Identifier_hash(kind, b)>>])
    /\ UNCHANGED <<registry, events, loadVars, appVars, schemaVars>>

FromName(name) ==
    /\ ret' = Called("from_name",
                     [name |-> name,
                      PrototypeId |-> PrototypeId_from_name(name),
                      ErasedPrototypeId |-> PrototypeId_from_name(name),
                      PrototypeName |-> PrototypeName_from_name(name),
                      ErasedPrototypeName |-> ErasedPrototypeName_from_name(name)])
    /\ UNCHANGED <<registry, events, loadVars, appVars, schemaVars>>

Into(to, from, a) ==
    /\ ret' = Called("into", [to |-> to, from |-> from, a |-> a,
                              into |-> Identifier_from(to, from, a)])
    /\ UNCHANGED <<registry, events, loadVars, appVars, schemaVars>>

NextId ==
    \/ \E kind \in IdKinds \cup NameKinds :
          \E a, b \in IdentifierValues(kind) : Eq(kind, a, b)
    \/ \E name \in IdNames : FromName(name)
    \/ \E c \in Conversions :
          \E a \in IdentifierValues(c[2]) : Into(c[1], c[2], a)

SpecId == Init /\ [][NextId]_vars

-----------------------------------------------------------------------------
(* Registry claims.                                                        *)

IsAdded(e) == e.kind = "Added"

\* C1: PrototypeRegistry::insert(p) with p.id() already present returns
\* Err(DuplicateId(id)) and leaves the map as it was (get(id) still gives the
\* stored record, the entry count is unchanged); with p.id() absent it
\* returns Ok(()) and get(id) then gives p.
C1_InsertRejectsDuplicate ==
    [][\A p \in Prototypes : Insert(p) =>
          LET id == Prototype_id(p)
          IN  IF id \in DOMAIN registry
              THEN /\ ret'.res = Err(DuplicateId(id))
                   /\ registry' = registry
                   /\ PrototypeRegistry_get(registry', id) = Some(registry[id])
                   /\ Cardinality(DOMAIN registry') = Cardinality(DOMAIN registry)
              ELSE /\ ret'.res = Ok(Unit)
                   /\ PrototypeRegistry_get(registry', id) = Some(p)
                   /\ Cardinality(DOMAIN registry') = Cardinality(DOMAIN registry) + 1
      ]_vars

\* A duplicate insert was refused in a registry of several entries.
C1_Witness ==
    \E id \in DOMAIN registry :
        /\ ret = Called("insert", Err(DuplicateId(id)))
        /\ registry[id] \in Prototypes
        /\ Cardinality(DOMAIN registry) >= 2

CountAdded(ev) == Cardinality({i \in 1..Len(ev) : IsAdded(ev[i])})

\* C2: RegMut::insert writes exactly one Added(id) when the underlying insert
\* succeeds and none when it fails with DuplicateId; no other step writes an
\* Added event, so the Added(id) events written are as many as the successful
\* RegMut inserts of id.
C2_AddedOncePerSuccessfulInsert ==
    [][/\ \A p \in Prototypes : RegMutInsert(p) =>
            LET id == Prototype_id(p)
            IN  IF id \in DOMAIN registry
                THEN /\ ret'.res = Err(DuplicateId(id))
                     /\ events' = events
                ELSE /\ ret'.res = Ok(Unit)
                     /\ events' = events \o <<Added(id)>>
       /\ CountAdded(events') > CountAdded(events) =>
            \E p \in Prototypes :
                /\ RegMutInsert(p)
                /\ Prototype_id(p) \notin DOMAIN registry
                /\ CountAdded(events') = CountAdded(events) + 1
      ]_vars

C2_Witness ==
    \E id \in DOMAIN registry :
        /\ ret = Called("RegMut::insert", Err(DuplicateId(id)))
        /\ events = <<Added(id)>>

\* C3: remove(id) on a present id returns the stored record and get(id) is
\* None afterwards; on an absent id it returns NotFound(id) and leaves the
\* registry as it was; RegMut::remove and RegMut::remove_by_name write exactly
\* one Removed(record) with the removed record when the removal succeeds and
\* nothing when it fails.
C3_RemoveReturnsRecordAndNotifies ==
    [][/\ \A id \in Ids : Remove(id) =>
            IF id \in DOMAIN registry
            THEN /\ ret'.res = Ok(registry[id])
                 /\ PrototypeRegistry_get(registry', id) = None
                 /\ DOMAIN registry' = DOMAIN registry \ {id}
            ELSE /\ ret'.res = Err(NotFound(id))
                 /\ registry' = registry
       /\ \A id \in Ids : RegMutRemove(id) =>
            IF id \in DOMAIN registry
            THEN /\ ret'.res = Ok(Unit)
                 /\ events' = events \o <<Removed(registry[id])>>
                 /\ PrototypeRegistry_get(registry', id) = None
            ELSE /\ ret'.res = Err(NotFound(id))
                 /\ events' = events
                 /\ registry' = registry
       /\ \A n \in Names : RegMutRemoveByName(n) =>
            IF HashOf[n] \in DOMAIN registry
            THEN /\ ret'.res = Ok(Unit)
                 /\ events' = events \o <<Removed(registry[HashOf[n]])>>
                 /\ PrototypeRegistry_get(registry', HashOf[n]) = None
            ELSE /\ ret'.res = Err(NotFound(HashOf[n]))
                 /\ events' = events
                 /\ registry' = registry
      ]_vars

C3_Witness ==
    /\ ret = Called("RegMut::remove", Ok(Unit))
    /\ Len(events) = 1
    /\ events[1].kind = "Removed"
    /\ Prototype_id(events[1].proto) \notin DOMAIN registry
    /\ registry # EmptyMap

\* C4 as claimed: whenever an Added(id) event can be read, get(id) through
\* the read-only facade is Some.
C4_AddedAlwaysFound ==
    \A i \in 1..Len(events) :
        IsAdded(events[i]) => PrototypeRegistry_get(registry, events[i].id).tag = "Some"

RemovalStep(id) ==
    \/ Remove(id)
    \/ RegMutRemove(id)
    \/ \E n \in Names : HashOf[n] = id /\ (RemoveByName(n) \/ RegMutRemoveByName(n))
    \/ Clear

\* C4, amended: an Added(id) event is written only in a step that leaves the
\* record of id in the registry; an entry leaves the registry only through
\* remove, remove_by_name or clear; and the consumer's lookup of every
\* Added(id) it reads is Some unless such a removal came in between: its
\* unwrap of swords.get does not panic then, and the process lives on
\* exactly when no unwrap panicked.
C4_AddedFoundUnlessRemoved ==
    [][/\ \A i \in 1..Len(events') :
            (IsAdded(events'[i]) /\ i > Len(events)) =>
                /\ PrototypeRegistry_get(registry', events'[i].id).tag = "Some"
                /\ Prototype_id(registry'[events'[i].id]) = events'[i].id
       /\ \A id \in DOMAIN registry \ DOMAIN registry' : RemovalStep(id)
       /\ ReadEvents => (panicked' <=> ret'.res.tag = "panic")
       /\ (ReadEvents /\ C4_AddedAlwaysFound) =>
            /\ ret'.res # [tag |-> "panic", at |-> "swords.get"]
            /\ ret'.res.tag = "logged" =>
                  /\ Len(ret'.res.val) = CountAdded(events)
                  /\ \A j \in 1..Len(ret'.res.val) :
                        ret'.res.val[j] \in {registry[id] : id \in DOMAIN registry}
      ]_vars

\* The consumer read an Added event and found its record, and the process
\* runs on.
C4_Witness ==
    /\ ~panicked
    /\ ret.op = "on_new_sword"
    /\ ret.res.tag = "logged"
    /\ Len(ret.res.val) = 1
    /\ Prototype_id(ret.res.val[1]) \in DOMAIN registry

\* C5: get_by_name(n) gives what get(Id::from_name(n)) gives, get_mut_by_name(n)
\* what get_mut(Id::from_name(n)) gives, and remove_by_name(n) returns and
\* changes what remove(Id::from_name(n)) returns and changes.
C5_ByNameIsByHashedId ==
    [][\A n \in Names :
          LET id == HashOf[n]
              ById == IF id \in DOMAIN registry THEN Some(registry[id]) ELSE None
          IN  /\ GetByName(n) => ret'.res = ById
              /\ GetMutByName(n) => ret'.res = ById
              /\ RemoveByName(n) =>
                    /\ ret'.res = PrototypeRegistry_remove(registry, id).ret
                    /\ registry' = PrototypeRegistry_remove(registry, id).reg
      ]_vars

C5_Witness ==
    /\ ret.op = "remove_by_name"
    /\ ret.res.tag = "Ok"
    /\ ret.res.val.name = <<>>
    /\ registry # EmptyMap

\* C6 as claimed: get_by_name never returns a record that retains no name.
C6_NamelessNeverFoundByName ==
    \A n \in Names :
        LET r == PrototypeRegistry_get_by_name(registry, n)
        IN  r.tag = "Some" => r.val.name # <<>>

\* C6, amended: get_by_name(n) finds the record stored under the FNV-1a hash
\* of n whether or not it retains a name: a record inserted under from_raw(h)
\* is returned by get_by_name(n) exactly when h is the hash of n, and a record
\* with a retained name exactly when that name hashes like n.
C6_FoundByNameIffHashMatches ==
    /\ \A n \in Names : \A id \in DOMAIN registry :
          (PrototypeRegistry_get_by_name(registry, n) = Some(registry[id]))
              <=> (id = HashOf[n])
    /\ ret.op = "get_by_name" =>
          \E n \in Names :
              ret.res = IF HashOf[n] \in DOMAIN registry
                        THEN Some(registry[HashOf[n]]) ELSE None

C6_Witness ==
    /\ ret = Called("get_by_name", Some(RawProto(HashOf[Name_a], 1)))
    /\ ZeroHash \in DOMAIN registry

-----------------------------------------------------------------------------
(* Parser and loader claims.                                               *)

\* An element that reads as one record: an object with `type` and `name`.
IsRecord(e) == e.kind = "object" /\ e.ty # <<>> /\ e.name # <<>>

\* The record an element reads as.
RecordOf(e) ==
    [ty |-> e.ty[1],
     name |-> [id |-> HashOf[e.name[1]], name |-> e.name[1]],
     tags |-> IF e.tags = <<>> THEN <<>> ELSE e.tags[1],
     proto |-> e.proto]

\* C7: the parser reads a document as a list of records first and, only if
\* that fails, as a single record, and fails only when both fail; a single
\* record r and the list [r] parse to equal one-element results, and a list
\* parses to its records in document order.
C7_ListFirstThenSingle ==
    \A l \in Loaders :
    LET doc == tasks.loaders[l].doc
        parsed == tasks.loaders[l].on_disk_prototypes
    IN
    doc # NoDoc =>
        LET asList == doc.kind = "array" /\ \A i \in 1..Len(doc.items) : IsRecord(doc.items[i])
            asSingle == doc.kind = "object" /\ IsRecord(doc.items[1])
        IN  /\ asList =>
                /\ parsed.tag = "Ok"
                /\ Len(parsed.val) = Len(doc.items)
                /\ \A i \in 1..Len(doc.items) : parsed.val[i] = RecordOf(doc.items[i])
            /\ asSingle =>
                /\ parsed = Ok(<<RecordOf(doc.items[1])>>)
                /\ parsed = OnDiskPrototypes_deserialize(JArray(doc.items))
            /\ (~asList /\ ~asSingle) => parsed.tag = "Err"

\* A single record was parsed through the fallback into a one-element result.
C7_Witness ==
    \E l \in Loaders :
        /\ tasks.loaders[l].doc.kind = "object"
        /\ tasks.loaders[l].on_disk_prototypes.tag = "Ok"
        /\ Len(tasks.loaders[l].on_disk_prototypes.val) = 1
        /\ tasks.loaders[l].on_disk_prototypes.val[1].tags = <<"rare">>

\* The records of a parsed document, and those whose discriminant the
\* prototype type registry knows.
KnownType(r) == r.ty \in DOMAIN prototype_type_registry

\* The step in which the load of task l returns.
Returns(l) == tasks.loaders[l].pc # "returned" /\ tasks'.loaders[l].pc = "returned"

\* C8: a record whose discriminant is not in the type registry when the load
\* converts its records is dropped from the load result with an error that
\* names the discriminant written to the log, and every other record of the
\* document, before or after it, is converted in the same relative order as
\* if the unknown record were absent.
C8_UnknownDiscriminantSkipped ==
    [][\A l \in Loaders : Converts(l) =>
          LET d == tasks.loaders[l].doc
              loaded == tasks.loaders[l].out
              known == SelectSeq(d.items, LAMBDA e : RecordOf(e).ty \in DOMAIN prototype_type_registry)
              without == PrototypesAssetLoader_load(JArray(known), prototype_type_registry, type_registry, DocPath)
          IN  /\ loaded'.tag = "Ok"
              /\ loaded' = without
              /\ Len(loaded'.val) <= Len(known)
              /\ \A j \in 1..Len(loaded'.val) :
                    \E c \in DOMAIN prototype_type_registry :
                        prototype_type_registry[c] = loaded'.val[j][1]
              /\ \A k \in 1..Len(d.items) :
                    RecordOf(d.items[k]).ty \notin DOMAIN prototype_type_registry =>
                        ("Unknown prototype type " \o RecordOf(d.items[k]).ty) \in log'
      ]_vars

\* An unknown record between two swords was dropped and its discriminant
\* logged, both swords were converted in document order.
C8_Witness ==
    \E l \in Loaders :
        LET loaded == tasks.loaders[l].out
        IN  /\ tasks.loaders[l].pc = "returned"
            /\ "Unknown prototype type does_not_exist" \in log
            /\ "Unknown prototype type sword" \notin log
            /\ tasks.loaders[l].doc = JArray(<<SwordA, UnknownA, SwordB>>)
            /\ loaded.tag = "Ok"
            /\ Len(loaded.val) = 2
            /\ loaded.val[1][2].name.name = Name_a
            /\ loaded.val[2][2].name.name = Name_b

\* Whether the payload of a record deserializes into the shape registered
\* for its discriminant.
Deserializes(r) ==
    /\ KnownType(r)
    /\ TypedReflectDeserializer_deserialize(prototype_type_registry[r.ty], r.proto, DocPath).tag = "Ok"

\* The dynamic prototype a record converts to: the numbers of its payload,
\* under Some where the field is an Option, and None for a null.
DynamicOf(r) ==
    <<prototype_type_registry[r.ty],
      [name |-> r.name, tags |-> r.tags,
       proto |-> [type |-> prototype_type_registry[r.ty],
                  fields |-> [f \in DOMAIN r.proto |->
                                 IF r.proto[f] = JNull THEN None
                                 ELSE IF is_option(Shape(prototype_type_registry[r.ty])[f])
                                      THEN Some(r.proto[f].n)
                                      ELSE r.proto[f].n]]]>>

\* C9: when deserializing one record's payload into its registered shape
\* fails, only that record is dropped, the error of the deserializer being
\* written to the log: the load succeeds and every sibling whose payload
\* deserializes is in the result.
C9_BadPayloadDropsOnlyThatRecord ==
    [][\A l \in Loaders : Converts(l) =>
          LET rs == tasks.loaders[l].on_disk_prototypes.val
              loaded == tasks.loaders[l].out
              good == {i \in 1..Len(rs) : Deserializes(rs[i])}
          IN  /\ loaded'.tag = "Ok"
              /\ Len(loaded'.val) = Cardinality(good)
              /\ \A i \in good : \E j \in 1..Len(loaded'.val) : loaded'.val[j] = DynamicOf(rs[i])
              /\ \A j \in 1..Len(loaded'.val) :
                    \E i \in good : loaded'.val[j] = DynamicOf(rs[i])
              /\ \A i \in 1..Len(rs) :
                    (KnownType(rs[i]) /\ i \notin good) =>
                        ("Failed to deserialize prototype: "
                            \o TypedReflectDeserializer_deserialize(
                                   prototype_type_registry[rs[i].ty], rs[i].proto,
                                   DocPath).err) \in log'
      ]_vars

\* A sword whose payload does not deserialize was dropped between two swords
\* that were loaded, and nothing but its error was logged.
C9_Witness ==
    \E l \in Loaders :
        /\ tasks.loaders[l].pc = "returned"
        /\ log = {"Failed to deserialize prototype: invalid type"}
        /\ tasks.loaders[l].doc = JArray(<<SwordA, SwordBadPayload, SwordB>>)
        /\ tasks.loaders[l].out.tag = "Ok"
        /\ Len(tasks.loaders[l].out.val) = 2

\* C10 as claimed: an error confined to one record of a list document, at
\* parser level or at pipeline level, never prevents the other records of
\* the document from being loaded.
C10_ErrorsNeverAbortSiblings ==
    [][\A l \in Loaders : (Returns(l) /\ tasks'.loaders[l].doc.kind = "array") =>
          LET d == tasks'.loaders[l].doc
              loaded == tasks.loaders[l].out
          IN
          \A i \in 1..Len(d.items) :
              (IsRecord(d.items[i]) /\ Deserializes(RecordOf(d.items[i]))) =>
                  /\ loaded'.tag = "Ok"
                  /\ \E j \in 1..Len(loaded'.val) : loaded'.val[j] = DynamicOf(RecordOf(d.items[i]))
      ]_vars

\* C10, amended: a pipeline-level error (an unknown discriminant, a payload
\* that does not deserialize) in one record of a list drops that record only;
\* a parser-level error in any element (not an object, or no `type` or `name`
\* key) makes the whole document fail to parse: load returns an error and
\* none of its records is loaded.
C10_ParserErrorAbortsDocument ==
    [][\A l \in Loaders : (Returns(l) /\ tasks'.loaders[l].doc.kind = "array") =>
          LET d == tasks'.loaders[l].doc
              parsed == tasks.loaders[l].on_disk_prototypes
              loaded == tasks.loaders[l].out
          IN
          IF \E i \in 1..Len(d.items) : ~IsRecord(d.items[i])
          THEN /\ parsed'.tag = "Err"
               /\ loaded'.tag = "Err"
          ELSE LET loadable == SelectSeq(d.items, LAMBDA e : Deserializes(RecordOf(e)))
               IN  /\ loaded'.tag = "Ok"
                   /\ loaded'.val = [j \in 1..Len(loadable) |-> DynamicOf(RecordOf(loadable[j]))]
      ]_vars

\* A list with a loadable sword and an element without `name` was rejected
\* as a whole while its discriminant was registered.
C10_Witness ==
    \E l \in Loaders :
        /\ tasks.loaders[l].pc = "returned"
        /\ tasks.loaders[l].doc = JArray(<<SwordA, NoNameKey>>)
        /\ tasks.loaders[l].out.tag = "Err"
        /\ "sword" \in DOMAIN prototype_type_registry

-----------------------------------------------------------------------------
(* Application claims.                                                     *)

\* The ids newly stored for a type by a step.
NewIds(ty) ==
    IF ty \in DOMAIN registries THEN DOMAIN registries'[ty] \ DOMAIN registries[ty]
    ELSE DOMAIN registries'[ty]

\* C11: a document that is no valid JSON, or matches neither the list nor the
\* single-record shape, makes load return an error; when the asset server
\* takes that error the load has failed, no asset is stored and no event is
\* sent for it, and no registry changes.  Assets come only from
\* loads that returned Ok, and records enter a registry only from an asset
\* in the store whose LoadedWithDependencies event the system reads.
C11_MalformedDocumentRejected ==
    [][/\ \A l \in Loaders :
            /\ (Returns(l) /\ OnDiskPrototypes_deserialize(tasks'.loaders[l].doc).tag = "Err") =>
                  /\ tasks'.loaders[l].out.tag = "Err"
                  /\ assets' = assets
                  /\ asset_events' = asset_events
                  /\ registries' = registries
            /\ (AssetServerTakes(l) /\ tasks.loaders[l].out.tag = "Err") =>
                  /\ ret'.res.tag = "Err"
                  /\ DocPath \in DOMAIN server => server'[DocPath] = "Failed"
                  /\ assets' = assets
                  /\ asset_events' = asset_events
                  /\ registries' = registries
       /\ (DocPath \in DOMAIN assets' /\ (DocPath \in DOMAIN assets => assets'[DocPath] # assets[DocPath])) =>
            \E l \in Loaders :
                /\ AssetServerTakes(l)
                /\ tasks.loaders[l].path = DocPath
                /\ OnDiskPrototypes_deserialize(tasks.loaders[l].doc).tag = "Ok"
                /\ tasks.loaders[l].out = Ok(assets'[DocPath])
       /\ \A ty \in DOMAIN registries' : \A id \in NewIds(ty) :
            /\ ret'.op = "on_prototypes_asset_loaded"
            /\ \E i \in 1..Len(asset_events) :
                  /\ asset_events[i].kind = "LoadedWithDependencies"
                  /\ asset_events[i].id \in DOMAIN assets
                  /\ \E j \in 1..Len(assets[asset_events[i].id]) :
                        /\ assets[asset_events[i].id][j][1] = ty
                        /\ assets[asset_events[i].id][j][2].name.id = id
      ]_vars

\* With Sword registered, a list with one element that lacks `name` was
\* handed to the loader: the load failed and nothing was stored or inserted.
C11_Witness ==
    /\ "Sword" \in type_registry
    /\ ret.op = "load"
    /\ ret.res = Err([io |-> MustBeListOrSingle])
    /\ DocPath \in DOMAIN server
    /\ server[DocPath] = "Failed"
    /\ DocPath \notin DOMAIN assets
    /\ "Sword" \in DOMAIN registries
    /\ registries["Sword"] = EmptyMap

\* The records the system reads in one run, in the order it inserts them: the
\* records of each asset whose LoadedWithDependencies event it meets while
\* the asset is still in the store.
RECURSIVE RecordsRead(_, _, _, _)
RecordsRead(evs, as, taken, i) ==
    IF i > Len(evs) THEN <<>>
    ELSE IF /\ evs[i].kind = "LoadedWithDependencies"
            /\ evs[i].id \in DOMAIN as \ taken
         THEN as[evs[i].id] \o RecordsRead(evs, as, taken \cup {evs[i].id}, i + 1)
         ELSE RecordsRead(evs, as, taken, i + 1)

DocDirectory == <<"assets", "protos">>

ExpectedFrom(n) ==
    CASE n = 1 -> <<"assets", "icons", "foo.png">>
      [] n = 2 -> DocDirectory \o <<"foo.png">>
      [] n = 0 -> DocDirectory \o <<"x">>

\* C13: when the document assets/protos/sword.proto.json is loaded, a handle
\* field whose value is a relative path string holds the path resolved
\* against the directory of the document ("../icons/foo.png" is
\* assets/icons/foo.png, "foo.png" is assets/protos/foo.png), and that
\* resolved path is the one the asset server was asked to load; the path of
\* a handle field visited before the field that makes its record fail is
\* resolved and asked for in the same way.
C13_ReferenceResolvedAgainstDocumentDirectory ==
    [][\A l \in Loaders :
          (Converts(l) /\ "gem" \in DOMAIN prototype_type_registry) =>
              LET d == tasks.loaders[l].doc
                  asset == tasks'.loaders[l].out.val
              IN
              \A k \in 1..Len(d.items) :
                  (d.items[k].ty = <<"gem">>) =>
                      /\ (\A f \in {"icon", "glow"} : d.items[k].proto[f].k = "str") =>
                            \E j \in 1..Len(asset) :
                                /\ asset[j][2].name.name = d.items[k].name[1]
                                /\ \A f \in {"icon", "glow"} :
                                      LET n == d.items[k].proto[f].n
                                          h == asset[j][2].proto.fields[f].handle
                                      IN  /\ h \in DOMAIN server'
                                          /\ Head(Strings[n]) # "/" => h = ExpectedFrom(n)
                      /\ (/\ d.items[k].proto.glow.k = "str"
                          /\ Head(Strings[d.items[k].proto.glow.n]) # "/") =>
                            ExpectedFrom(d.items[k].proto.glow.n) \in DOMAIN server'
      ]_vars

\* The gem "a" of the document was loaded: its icon "../icons/foo.png" is
\* the handle of assets/icons/foo.png, which the asset server is loading.
C13_Witness ==
    /\ ret.op = "load"
    /\ ret.res.tag = "Ok"
    /\ DocPath \in DOMAIN assets
    /\ Len(assets[DocPath]) = 1
    /\ assets[DocPath][1][1] = "Gem"
    /\ assets[DocPath][1][2].proto.fields.icon.handle = <<"assets", "icons", "foo.png">>
    /\ server[<<"assets", "icons", "foo.png">>] = "Loading"

\* C14 as claimed: whenever the system runs while the asset of a loaded
\* document is in the store, its records (which hold their handles) are in
\* the registry afterwards, whether or not what they refer to is loaded.
C14_AvailableOnceItHoldsItsHandle ==
    [][(OnPrototypesAssetLoaded /\ DocPath \in DOMAIN assets) =>
          \A j \in 1..Len(assets[DocPath]) :
              /\ assets[DocPath][j][1] \in DOMAIN registries'
              /\ assets[DocPath][j][2].name.id \in DOMAIN registries'[assets[DocPath][j][1]]
      ]_vars

\* The handles the records of a PrototypesAsset hold.
HandlesOf(prototypes) ==
    UNION {{prototypes[j][2].proto.fields[f].handle :
                f \in {g \in DOMAIN Shape(prototypes[j][1]) :
                          Shape(prototypes[j][1])[g] = "Handle<Icon>"}} :
           j \in 1..Len(prototypes)}

\* Whether the event is in the queue.
Sent(evs, kind, id) == \E i \in 1..Len(evs) : evs[i] = AssetEvent(kind, id)

\* C14 amended: the load returns at once with records that hold their
\* handles, each handed to the asset server and possibly still loading; but
\* a record enters the registry only when the system reads the
\* LoadedWithDependencies event of its document while the asset is in the
\* store, and a run of the system that reads no such event (the Added or
\* Modified event of an asset whose handles are still loading) inserts
\* nothing.
C14_AvailableOnLoadedWithDependencies ==
    [][/\ \A l \in Loaders :
            Converts(l) =>
                \A h \in HandlesOf(tasks'.loaders[l].out.val) :
                    /\ h \in DOMAIN server'
                    /\ h \notin DOMAIN server => server'[h] = "Loading"
       /\ \A ty \in DOMAIN registries' : \A id \in NewIds(ty) :
            /\ OnPrototypesAssetLoaded
            /\ Sent(asset_events, "LoadedWithDependencies", DocPath)
            /\ DocPath \in DOMAIN assets
       /\ (/\ OnPrototypesAssetLoaded
           /\ ~Sent(asset_events, "LoadedWithDependencies", DocPath)) =>
            registries' = registries
      ]_vars

\* The system ran on the Added event of a gem document: the gem of the
\* stored asset holds the handle of an icon that is still loading, and the
\* registry of gems is empty.
C14_Witness ==
    /\ ret.op = "on_prototypes_asset_loaded"
    /\ DocPath \in DOMAIN assets
    /\ Len(assets[DocPath]) = 1
    /\ assets[DocPath][1][2].proto.fields.icon.handle \in DOMAIN server
    /\ server[assets[DocPath][1][2].proto.fields.icon.handle] = "Loading"
    /\ "Gem" \in DOMAIN registries
    /\ registries["Gem"] = EmptyMap

\* C15 as claimed, for the insert of on_prototypes_asset_loaded: when the
\* system meets a record whose id already exists for its type, the
\* DuplicateIdentifier outcome of its insert is handed back by the system
\* or written to the diagnostics.
C15_RegistryErrorsNeverDropped ==
    [][OnPrototypesAssetLoaded =>
          LET L == RecordsRead(asset_events, assets, {}, 1)
          IN  \A j \in 1..Len(L) :
                  (/\ L[j][1] \in DOMAIN registries
                   /\ L[j][2].name.id \in DOMAIN registries[L[j][1]]) =>
                      \/ ret'.res.tag = "Err"
                      \/ "DuplicateId" \in log'
      ]_vars

\* C16: no step of the application removes or replaces a record that is in a
\* registry: not the reload of its document with other content, not the
\* Modified or Removed events of its asset, not a second load_prototypes.
C16_NoEvictionOnReload ==
    [][\A ty \in DOMAIN registries : \A id \in DOMAIN registries[ty] :
          /\ ty \in DOMAIN registries'
          /\ id \in DOMAIN registries'[ty]
          /\ registries'[ty][id] = registries[ty][id]
      ]_vars

\* The gem "a" of a first load is in its registry with the icon of that
\* load; its document was asked for again, loaded and loaded once more with
\* another gem "a": the Modified event of the document waits for the system.
C16_Witness ==
    /\ ret.op = "load"
    /\ Sent(asset_events, "Modified", DocPath)
    /\ "Gem" \in DOMAIN registries
    /\ HashOf[Name_a] \in DOMAIN registries["Gem"]
    /\ registries["Gem"][HashOf[Name_a]].data.fields.icon.handle = ExpectedFrom(1)
    /\ DocPath \in DOMAIN assets
    /\ Len(assets[DocPath]) = 1
    /\ assets[DocPath][1][2].proto.fields.icon.handle # ExpectedFrom(1)

-----------------------------------------------------------------------------
(* Schema claims.  What the emitted schema accepts is read with the        *)
(* JSON-Schema (draft-07) meaning of its keywords: `type`, `required`,     *)
(* `properties`, `allOf`, `oneOf` (exactly one branch), `items`, `enum`,   *)
(* `minimum`, and `$ref` into `definitions`.                               *)

HasKey(e, key) ==
    CASE key = "type" -> e.ty # <<>>
      [] key = "name" -> e.name # <<>>
      [] key = "tags" -> e.tags # <<>>
      [] OTHER -> key \in DOMAIN e.proto

\* The value under a key of a record object.
Member(e, key) ==
    CASE key \in {"type", "name"} -> [j |-> "string"]
      [] key = "tags" -> [j |-> "array", items |-> [i \in 1..Len(e.tags[1]) |-> [j |-> "string"]]]
      [] OTHER -> IF e.proto[key].k = "int"
                  THEN [j |-> "integer", n |-> e.proto[key].n]
                  ELSE IF e.proto[key].k = "null" THEN [j |-> "null"]
                  ELSE [j |-> "string"]

TypeMatches(type, j) == type = j \/ (type = "number" /\ j = "integer")

RECURSIVE Valid(_, _, _)
ValidRef(defs, ref, v) ==
    \E t \in DOMAIN defs \ {"PrototypeAny"} :
        /\ "#/definitions/" \o t = ref
        /\ Valid(defs, defs[t], v)

\* In draft-07 a schema that carries `$ref` is read as that reference
\* alone, the keywords beside it are ignored.  Every number of a document
\* here is an integer, above f32::MIN.
Valid(defs, sch, v) ==
    IF sch.ref # NoRef THEN ValidRef(defs, sch.ref, v)
    ELSE
    /\ TypeMatches(sch.type, v.j)
    /\ (sch.minimum # <<>> /\ v.j = "integer") =>
          (sch.type = "number" \/ v.n >= sch.minimum[1])
    /\ v.j = "object" =>
          /\ \A i \in 1..Len(sch.required) : HasKey(v.e, sch.required[i])
          /\ \A key \in DOMAIN sch.properties :
                HasKey(v.e, key) => ValidRef(defs, sch.properties[key], Member(v.e, key))
    /\ \A i \in 1..Len(sch.allOf) : ValidRef(defs, sch.allOf[i], v)
    /\ (v.j = "array" /\ sch.items # NoRef) =>
          \A i \in 1..Len(v.items) : ValidRef(defs, sch.items, v.items[i])

\* Whether the value e satisfies "#/definitions/PrototypeAny".
ValidAny(S, e) ==
    /\ "PrototypeAny" \in DOMAIN S.definitions
    /\ LET any == S.definitions["PrototypeAny"]
       IN  /\ e.kind = "object"
           /\ \A i \in 1..Len(any.required) : HasKey(e, any.required[i])
           /\ Cardinality({i \in 1..Len(any.oneOf) :
                  /\ e.ty # <<>> => e.ty = <<any.oneOf[i].enum>>
                  /\ ValidRef(S.definitions, any.oneOf[i].ref, [j |-> "object", e |-> e])}) = 1

\* Whether the schema document S accepts the document d.
SchemaAccepts(S, d) ==
    /\ d.kind \in S.type
    /\ Cardinality({i \in 1..Len(S.oneOf) :
          IF "ref" \in DOMAIN S.oneOf[i]
          THEN d.kind = "object" /\ ValidAny(S, d.items[1])
          ELSE /\ d.kind = S.oneOf[i].type
               /\ \A k \in 1..Len(d.items) : ValidAny(S, d.items[k])}) = 1

\* Whether an element that names a discriminant names a registered one and
\* carries a payload that deserializes into its shape.
ContentFits(e) ==
    (e.kind = "object" /\ e.ty # <<>>) =>
        /\ e.ty[1] \in DOMAIN prototype_type_registry
        /\ TypedReflectDeserializer_deserialize(
               prototype_type_registry[e.ty[1]], e.proto, DocPath).tag = "Ok"

\* C17: when the schema is emitted with the plugin added, after any sequence
\* of register_prototype calls (a call made before the plugin was added
\* registers no discriminant), PrototypeAny.oneOf has exactly one branch per
\* registered discriminant; the branch restricts `type` to the discriminant and refers
\* to "#/definitions/Prototype<D>", and `definitions` holds that entry (the
\* schema that composes the schema of D).
C17_OneBranchPerRegisteredPrototype ==
    [][\A keys \in KeyOrders(DOMAIN schemas.prototypes) :
          (GetPrototypesSchemas(keys) /\ "PrototypesSchemas" \in resources) =>
              LET S == ret'.res
                  any == S.definitions["PrototypeAny"]
                  ptr == prototype_type_registry
              IN  /\ Len(any.oneOf) = Cardinality(DOMAIN ptr)
                  /\ \A key \in DOMAIN ptr :
                        \E i \in 1..Len(any.oneOf) :
                            /\ any.oneOf[i].enum = key
                            /\ any.oneOf[i].ref = "#/definitions/Prototype<" \o ptr[key] \o ">"
                            /\ ("Prototype<" \o ptr[key] \o ">") \in DOMAIN S.definitions
                            /\ S.definitions["Prototype<" \o ptr[key] \o ">"].allOf
                                   = <<"#/definitions/" \o ptr[key]>>
      ]_vars

\* The schema was emitted with Sword and Gem registered: two branches.
C17_Witness ==
    /\ ~panicked
    /\ ret.op = "get_prototypes_schemas"
    /\ Len(ret.res.definitions["PrototypeAny"].oneOf) = 2
    /\ DOMAIN prototype_type_registry = {"sword", "gem"}

\* Whether no payload field of the element is null.  The schema of an
\* Option field is read as the `$ref` to the schema of its inner type, so it
\* takes the values of that type and not the null that deserializes to None.
NoNull(e) == e.kind = "object" => \A f \in DOMAIN e.proto : e.proto[f] # JNull

C19_EachTitleWrittenOnce ==
    [][\A D \in SchemaTypeIds :
          RegisterResourcesStep(D) =>
              \A i \in 1..Len(schema_log'.written) :
                  schema_log'.written[i] \notin DOMAIN schemas.refs
      ]_vars

\* C19 amended: a register_prototype::<D> call writes no title twice; the
\* only title it writes that was already in the table is that of
\* Prototype<D> itself, written last when D was registered before; and no
\* entry of the table is ever changed or removed, so a type referenced by
\* two sibling fields or by several prototypes has one entry.
C19_SubSchemasWrittenOnce ==
    [][\A D \in SchemaTypeIds :
          RegisterResourcesStep(D) =>
              LET w == schema_log'.written
              IN  /\ \A i, j \in 1..Len(w) : w[i] = w[j] => i = j
                  /\ \A i \in 1..Len(w) :
                        w[i] \in DOMAIN schemas.refs =>
                            /\ w[i] = "Prototype<" \o D \o ">"
                            /\ i = Len(w)
                            /\ prototype_name(D) \in DOMAIN schemas.prototypes
                  /\ \A t \in DOMAIN schemas.refs :
                        /\ t \in DOMAIN schemas'.refs
                        /\ schemas'.refs[t] = schemas.refs[t]
      ]_vars

\* Gem was registered after Sword: the type of its two sibling fields was
\* written once, the titles Sword had written were not written again.
C19_Witness ==
    /\ schema_log.written = <<"Handle<Icon>", "Gem", "Prototype<Gem>">>
    /\ "Prototype<Sword>" \in DOMAIN schemas.refs

\* C20 as claimed: the schema generation of register_prototype::<D>
\* terminates for every D, the self-referential Tree included.
C20_SchemaGenerationTerminates ==
    [][\A D \in SchemaTypeIds : RegisterResourcesStep(D) => ~schema_log'.overflow]_vars

-----------------------------------------------------------------------------
(* Derive claims.                                                          *)

\* The names of the fields of fs that satisfy Keep, in field order.
NamesWhere(fs, Keep(_)) ==
    LET sel == SelectSeq(fs, Keep) IN [k \in 1..Len(sel) |-> sel[k].name]

\* C21 as claimed: the `required` list of the schema of a structure holds
\* exactly its fields that are not skipped, not flattened, not Option-typed
\* and not marked default.
C21_RequiredExcludesMarkedFields ==
    (ret.op = "json_schema_struct" /\ ret.res.schema # DoesNotCompile) =>
        ret.res.schema.required =
            NamesWhere(ret.res.fields_named,
                       LAMBDA f : ~f.skip /\ ~f.flatten /\ ~f.default /\ f.ty # "Option<u32>")

\* C21 amended: an Option-typed field is never in `required`.  For a
\* structure marked #[reflect(Deserialize)], `required` holds exactly the
\* fields that are not skipped, not flattened, not Option-typed and not
\* marked default; for any other structure the serde marks are not read and
\* `required` holds every field that is not Option-typed.  There is a
\* schema unless the structure is marked #[reflect(Deserialize)] and has
\* two or more fields flattened and not skipped.
C21_RequiredFollowsMarksUnderReflectDeserialize ==
    ret.op = "json_schema_struct" =>
        LET fs == ret.res.fields_named
            required == ret.res.schema.required
            flattened == SelectSeq(fs, LAMBDA f : f.flatten /\ ~f.skip)
        IN  IF ret.res.do_reflect_deserialize /\ Len(flattened) > 1
            THEN ret.res.schema = DoesNotCompile
            ELSE
            /\ ret.res.schema # DoesNotCompile
            /\ \A i \in 1..Len(fs) : \A k \in 1..Len(required) :
                  fs[i].ty = "Option<u32>" => required[k] # fs[i].name
            /\ ret.res.do_reflect_deserialize =>
                  required = NamesWhere(fs, LAMBDA f : ~f.skip /\ ~f.flatten /\ ~f.default
                                                      /\ f.ty # "Option<u32>")
            /\ ~ret.res.do_reflect_deserialize =>
                  required = NamesWhere(fs, LAMBDA f : f.ty # "Option<u32>")

\* The schema of a two-field structure whose first field is marked default
\* and whose second is plain was generated under #[reflect(Deserialize)]:
\* only the second is required, both are properties.
C21_Witness ==
    /\ ret.op = "json_schema_struct"
    /\ ret.res.do_reflect_deserialize
    /\ ret.res.fields_named = <<Field("f1", "u32", FALSE, FALSE, TRUE),
                                Field("f2", "u32", FALSE, FALSE, FALSE)>>
    /\ ret.res.schema.required = <<"f2">>
    /\ DOMAIN ret.res.schema.properties = {"f1", "f2"}

-----------------------------------------------------------------------------
(* Identifier claims.                                                      *)

\* The hash an identifier of a kind carries.
HashCarried(kind, a) == IF kind \in IdKinds THEN a ELSE a.id

\* C22: two identifiers of one kind are equal iff the hashes they carry are
\* equal, whatever names they retain, and equal identifiers write the same
\* to a hasher; the identifiers of the four kinds built from one name carry
\* the hash of that name; a conversion keeps the hash.
C22_EqualityIsByHash ==
    /\ ret.op = "eq" =>
          /\ ret.res.eq <=> (HashCarried(ret.res.kind, ret.res.a) = HashCarried(ret.res.kind, ret.res.b))
          /\ ret.res.eq <=> (ret.res.hash[1] = ret.res.hash[2])
    /\ ret.op = "from_name" =>
          /\ ret.res.PrototypeId = fnv1a_hash_str_64(ret.res.name)
          /\ ret.res.ErasedPrototypeId = ret.res.PrototypeId
          /\ ret.res.PrototypeName.id = ret.res.PrototypeId
          /\ ret.res.ErasedPrototypeName.id = ret.res.PrototypeId
    /\ ret.op = "into" =>
          HashCarried(ret.res.to, ret.res.into) = HashCarried(ret.res.from, ret.res.a)

\* Two named identifiers with the hash of "a", one retaining the name "b",
\* were compared and found equal.
C22_Witness ==
    /\ ret.op = "eq"
    /\ ret.res.kind = "PrototypeName"
    /\ ret.res.a = [id |-> HashOf[Name_a], name |-> Name_a]
    /\ ret.res.b = [id |-> HashOf[Name_a], name |-> Name_b]
    /\ ret.res.eq

-----------------------------------------------------------------------------
(* Claims about several loads.                                             *)

\* The first record of L with the type and id.
FirstOf(L, ty, id) ==
    L[CHOOSE j \in 1..Len(L) :
          /\ L[j][1] = ty /\ L[j][2].name.id = id
          /\ \A k \in 1..(j - 1) : ~(L[k][1] = ty /\ L[k][2].name.id = id)][2]

-----------------------------------------------------------------------------
(* Claims about registration beside loads.                                 *)

\* The TypeId a discriminant was registered with.
RegisteredAs(ty) == CHOOSE D \in TypeIds : prototype_name(D) = ty

\* C24 as claimed: every discriminant whose register_prototype call had
\* returned when a load took the read lock of the Type Registry resolves in
\* that load to the TypeId it was registered with; a loader that asks for a
\* read guard is never kept waiting; and a loader that holds both guards
\* sees every registration either whole or not at all.
C24_NoPartialRegistrationObserved ==
    \A l \in Loaders :
        LET t == tasks.loaders[l]
        IN  /\ t.pc = "returned" =>
                \A i \in 1..Len(t.converted) :
                    LET ty == OnDiskPrototypes_deserialize(t.doc).val[i].ty
                    IN  ty \in t.completed =>
                            /\ t.converted[i].tag = "Some"
                            /\ t.converted[i].val[1] = RegisteredAs(ty)
            /\ t.pc = "read" => ENABLED TakesTypeRegistryRead(l)
            /\ t.pc = "registry" => ENABLED TakesPrototypeTypeRegistryRead(l)
            /\ t.pc = "both" =>
                \A D \in TypeIds :
                    D \in type_registry <=> prototype_name(D) \in DOMAIN prototype_type_registry

\* C24 amended: every discriminant whose register_prototype call had
\* returned when a load took the read lock of the Type Registry resolves in
\* that load to the TypeId it was registered with.  A loader that asks for a
\* read guard gets it whatever guards the other loaders hold, unless its
\* call was queued behind a register_prototype call that waits for the
\* write lock of that registry.  A registration is not atomic: a loader that
\* holds both guards never sees a discriminant whose type has no
\* registration, but it may see the type of a call that has not written its
\* discriminant yet, and the records of that discriminant are dropped as
\* unknown, with the error written to the log.
C24_CompletedRegistrationsResolve ==
    \A l \in Loaders :
        LET t == tasks.loaders[l]
        IN  /\ t.pc = "returned" =>
                \A i \in 1..Len(t.converted) :
                    LET ty == OnDiskPrototypes_deserialize(t.doc).val[i].ty
                    IN  /\ ty \in t.completed =>
                            /\ t.converted[i].tag = "Some"
                            /\ t.converted[i].val[1] = RegisteredAs(ty)
                        /\ ty \notin DOMAIN prototype_type_registry =>
                            /\ t.converted[i] = None
                            /\ ("Unknown prototype type " \o ty) \in log
            /\ (t.pc = "read" /\ ~t.parked) => ENABLED TakesTypeRegistryRead(l)
            /\ (t.pc = "registry" /\ ~t.parked) => ENABLED TakesPrototypeTypeRegistryRead(l)
            /\ t.parked =>
                IF t.pc = "read" THEN TypeRegistryWriter(tasks)
                ELSE t.pc = "registry" /\ PrototypeTypeRegistryWriter(tasks, resources)
            /\ t.pc = "both" =>
                /\ \A ty \in DOMAIN prototype_type_registry :
                      prototype_type_registry[ty] \in type_registry
                /\ \A D \in type_registry :
                      prototype_name(D) \notin DOMAIN prototype_type_registry =>
                          tasks.registering \in {Registering(D, "resources"),
                                                 Registering(D, "write")}

\* One load converted a sword registered before it took the lock and
\* dropped an effect as unknown, the type of Effect being registered and its
\* discriminant not yet written: the registration waits for the write lock
\* while the other load holds both read guards.
C24_Witness ==
    /\ tasks.registering = Registering("Effect", "write")
    /\ tasks.loaders["io1"].pc = "returned"
    /\ tasks.loaders["io1"].doc = JArray(<<SwordB, EffectA>>)
    /\ "sword" \in tasks.loaders["io1"].completed
    /\ tasks.loaders["io1"].converted[1].tag = "Some"
    /\ tasks.loaders["io1"].converted[1].val[1] = "Sword"
    /\ tasks.loaders["io1"].converted[2] = None
    /\ "Unknown prototype type effect" \in log
    /\ tasks.loaders["io2"].pc = "both"

-----------------------------------------------------------------------------
(* Claims about what a load leaves alone.                                  *)

\* The records held by all the registries.
Entries(regs) == UNION {{<<ty, id>> : id \in DOMAIN regs[ty]} : ty \in DOMAIN regs}

\* C25: no step of a run of PrototypesAssetLoader::load, whether it returns
\* an asset or an error, and no step in which the asset server takes what it
\* returned changes a registry, also when another load of the same document
\* was started before it completed; a failed load leaves no asset and no
\* event behind; the records of the registries change only in a run of
\* on_prototypes_asset_loaded that reads a LoadedWithDependencies event of
\* an asset in the store (register_prototype adds empty registries and no
\* record).
C25_LoadLeavesRegistriesAlone ==
    [][/\ \A l \in Loaders :
            /\ tasks'.loaders[l] # tasks.loaders[l] => registries' = registries
            /\ (AssetServerTakes(l) /\ tasks.loaders[l].out.tag = "Err") =>
                  assets' = assets /\ asset_events' = asset_events
       /\ tasks'.spawned # tasks.spawned => registries' = registries
       /\ registries' # registries =>
            \/ /\ OnPrototypesAssetLoaded
               /\ \E i \in 1..Len(asset_events) :
                    /\ asset_events[i].kind = "LoadedWithDependencies"
                    /\ asset_events[i].id \in DOMAIN assets
            \/ /\ \E D \in AppTypeIds : RegisterResourcesStep(D)
               /\ Entries(registries') = Entries(registries)
               /\ DOMAIN registries' # DOMAIN registries
      ]_vars

\* The sword of a first load is in its registry; the document was asked
\* for again and changed while its load was under way: the load of the
\* changed document failed and was taken, the load it superseded has
\* returned an asset that nobody has taken yet.
C25_Witness ==
    /\ ret.op = "load"
    /\ ret.res.tag = "Err"
    /\ "Sword" \in DOMAIN registries
    /\ registries["Sword"] # EmptyMap
    /\ DocPath \in DOMAIN server
    /\ server[DocPath] = "Failed"
    /\ \E l \in Loaders :
          /\ tasks.loaders[l].pc = "returned"
          /\ tasks.loaders[l].path = DocPath
          /\ tasks.loaders[l].out.tag = "Ok"

-----------------------------------------------------------------------------
(* Claims about reference fields.                                          *)

\* The fields of shape D declared as asset handles.
HandleFields(D) == {f \in DOMAIN Shape(D) : Shape(D)[f] = "Handle<Icon>"}

\* C26: in every load, a record of a registered shape is kept exactly when
\* each of its values fits the declared type of its field; a record with a
\* non-string value in a handle field is dropped and the error of the
\* deserializer is written to the log; in a kept record the
\* fields declared as handles hold the handle of the resolved path and every
\* string field holds the string of the JSON value itself; the paths of the
\* handle fields of the kept records are known to the asset server, and the
\* assets that start loading are paths of string values in fields declared
\* as handles, never the string of another field.
C26_ReferenceFieldsByDeclaredType ==
    [][\A l \in Loaders : Converts(l) =>
          LET rs == tasks.loaders[l].on_disk_prototypes.val
              known == {i \in 1..Len(rs) : rs[i].ty \in DOMAIN prototype_type_registry}
              TypeOf(i) == prototype_type_registry[rs[i].ty]
              kept == {i \in known :
                          /\ DOMAIN rs[i].proto = DOMAIN Shape(TypeOf(i))
                          /\ \A f \in HandleFields(TypeOf(i)) : rs[i].proto[f].k = "str"
                          /\ \A f \in DOMAIN Shape(TypeOf(i)) \ HandleFields(TypeOf(i)) :
                                FieldAccepts(Shape(TypeOf(i))[f], rs[i].proto[f])}
              out == tasks'.loaders[l].out.val
              InHandleFields ==
                  {visit_str(DocPath, Strings[rs[i].proto[f].n]) :
                      <<i, f>> \in {<<i, f>> \in known \X {"seal", "icon", "glow"} :
                                        /\ f \in DOMAIN rs[i].proto
                                        /\ f \in HandleFields(TypeOf(i))
                                        /\ rs[i].proto[f].k = "str"}}
          IN  /\ Len(out) = Cardinality(kept)
              /\ \A i \in known :
                    (\E f \in HandleFields(TypeOf(i)) \cap DOMAIN rs[i].proto :
                        rs[i].proto[f].k # "str") =>
                            /\ i \notin kept
                            /\ "Failed to deserialize prototype: invalid type" \in log'
              /\ \A i \in kept : \E j \in 1..Len(out) :
                    /\ out[j][1] = TypeOf(i)
                    /\ out[j][2].name = rs[i].name
                    /\ \A f \in HandleFields(TypeOf(i)) :
                          out[j][2].proto.fields[f] =
                              [handle |-> visit_str(DocPath, Strings[rs[i].proto[f].n])]
                    /\ \A f \in DOMAIN Shape(TypeOf(i)) \ HandleFields(TypeOf(i)) :
                          out[j][2].proto.fields[f] = [string |-> Strings[rs[i].proto[f].n]]
              /\ {visit_str(DocPath, Strings[rs[i].proto[f].n]) :
                        <<i, f>> \in {<<i, f>> \in kept \X {"seal", "icon", "glow"} :
                                          f \in HandleFields(TypeOf(i))}}
                    \subseteq DOMAIN server'
              /\ DOMAIN server' \ DOMAIN server \subseteq InHandleFields
      ]_vars

\* A list of a scroll whose seal is a number and a scroll whose text reads
\* like a path was loaded: the first was dropped, the second kept with its
\* text as a string, and only the seal of the second started to load.
C26_Witness ==
    /\ ret.op = "load"
    /\ ret.res.tag = "Ok"
    /\ log = {"Failed to deserialize prototype: invalid type"}
    /\ Len(ret.res.val) = 1
    /\ ret.res.val[1][2].name.name = Name_b
    /\ ret.res.val[1][2].proto.fields.text = [string |-> Strings[1]]
    /\ visit_str(DocPath, Strings[2]) \in DOMAIN server
    /\ visit_str(DocPath, Strings[1]) \notin DOMAIN server

-----------------------------------------------------------------------------
(* Claims about the event that makes records visible.                      *)

\* C27: a record enters a registry only in a run of
\* on_prototypes_asset_loaded that reads a LoadedWithDependencies event of
\* the document while its asset is in the store, and everything the records
\* of that asset refer to is loaded at that moment; a run that reads no such
\* event, or reads one when the asset was already taken out of the store,
\* inserts nothing.
C27_VisibleOnlyWithDependenciesLoaded ==
    [][/\ \A ty \in DOMAIN registries' : \A id \in NewIds(ty) :
            /\ OnPrototypesAssetLoaded
            /\ Sent(asset_events, "LoadedWithDependencies", DocPath)
            /\ DocPath \in DOMAIN assets
            /\ DependenciesLoaded(HandlesOf(assets[DocPath]), server)
       /\ (/\ OnPrototypesAssetLoaded
           /\ \/ ~Sent(asset_events, "LoadedWithDependencies", DocPath)
              \/ DocPath \notin DOMAIN assets) =>
            registries' = registries
      ]_vars

-----------------------------------------------------------------------------
(* Claims about LoadingPrototypesHandles.                                  *)

\* C28: load_prototypes leaves the handle of the path in
\* LoadingPrototypesHandles; a handle leaves it only in a run of
\* on_prototypes_asset_loaded that reads a LoadedWithDependencies event of
\* its id while the asset is in the store, and every such run removes it;
\* as long as the handle is held the asset server keeps the asset, and what
\* was stored of it stays in the store until that run.
C28_HandleKeptUntilProcessed ==
    [][/\ LoadPrototypes(DocPath) =>
            /\ DocPath \in loading_prototypes_handles'
            /\ loading_prototypes_handles \subseteq loading_prototypes_handles'
       /\ \A h \in loading_prototypes_handles :
            /\ h \notin loading_prototypes_handles' =>
                  /\ OnPrototypesAssetLoaded
                  /\ Sent(asset_events, "LoadedWithDependencies", h)
                  /\ h \in DOMAIN assets
            /\ (/\ OnPrototypesAssetLoaded
                /\ Sent(asset_events, "LoadedWithDependencies", h)
                /\ h \in DOMAIN assets) => h \notin loading_prototypes_handles'
            /\ h \in loading_prototypes_handles' =>
                  /\ h \in DOMAIN server'
                  /\ h \in DOMAIN assets => h \in DOMAIN assets'
       /\ \A h \in loading_prototypes_handles' : h \in DOMAIN server'
      ]_vars

\* The system ran on the Added event of a gem document whose icon is still
\* loading: the asset is in the store and its handle is still held.
C28_Witness ==
    /\ ret.op = "on_prototypes_asset_loaded"
    /\ DocPath \in loading_prototypes_handles
    /\ DocPath \in DOMAIN assets
    /\ server[DocPath] = "Loaded"

-----------------------------------------------------------------------------
(* Claims about insert_many and the keys of the registry.                  *)

\* The first position of the slice whose id is in the registry of before or
\* earlier in the slice; 0 when there is none.
FirstDuplicate(before, ps) ==
    LET dup == {i \in 1..Len(ps) :
                    \/ Prototype_id(ps[i]) \in DOMAIN before
                    \/ \E j \in 1..(i - 1) : Prototype_id(ps[j]) = Prototype_id(ps[i])}
    IN  IF dup = {} THEN 0 ELSE CHOOSE i \in dup : \A j \in dup : i <= j

\* C29: after insert_many on a slice, when no id of the slice is in the
\* registry or repeated in the slice the call returned Ok(()) and every
\* prototype of the slice is stored; otherwise it returned DuplicateId of
\* the first such prototype, the prototypes before it are stored, and
\* nothing else was added: the registry holds what it held before and the
\* prototypes before the duplicate.
C29_InsertManyStopsAtFirstDuplicate ==
    ret.op = "insert_many" =>
        LET ps == ret.res.prototypes
            before == ret.res.before
            k == FirstDuplicate(before, ps)
            n == IF k = 0 THEN Len(ps) ELSE k - 1
        IN  /\ ret.res.ret = IF k = 0 THEN Ok(Unit)
                             ELSE Err(DuplicateId(Prototype_id(ps[k])))
            /\ DOMAIN registry = DOMAIN before \cup {Prototype_id(ps[i]) : i \in 1..n}
            /\ \A i \in 1..n : registry[Prototype_id(ps[i])] = ps[i]
            /\ \A id \in DOMAIN before : registry[id] = before[id]

\* A slice of three whose second repeats the id of the first: the first is
\* stored, the call returned DuplicateId, the third is not stored.
C29_Witness ==
    /\ ret.op = "insert_many"
    /\ ret.res.prototypes = <<NamedProto(Name_a, 1), NamedProto(Name_a, 2), NamedProto(Name_b, 1)>>
    /\ ret.res.before = EmptyMap
    /\ ret.res.ret = Err(DuplicateId(HashOf[Name_a]))
    /\ registry = MapPut(EmptyMap, HashOf[Name_a], NamedProto(Name_a, 1))

\* C30: in every state reached by insert, insert_many, remove,
\* remove_by_name and clear, every entry is stored under the id of its
\* prototype and get of that id returns it; ids() and prototypes() hand out
\* as many items as there are entries, the i-th prototype under the i-th id;
\* after clear the registry is empty and get returns None for every id.
C30_EntriesKeyedByTheirId ==
    /\ \A id \in DOMAIN registry :
            /\ Prototype_id(registry[id]) = id
            /\ PrototypeRegistry_get(registry, Prototype_id(registry[id])) = Some(registry[id])
    /\ ret.op = "ids" =>
            /\ Len(ret.res.ids) = Cardinality(DOMAIN registry)
            /\ Len(ret.res.prototypes) = Len(ret.res.ids)
            /\ {ret.res.ids[i] : i \in 1..Len(ret.res.ids)} = DOMAIN registry
            /\ \A i \in 1..Len(ret.res.ids) :
                    Prototype_id(ret.res.prototypes[i]) = ret.res.ids[i]
    /\ ret.op = "clear" =>
            /\ registry = EmptyMap
            /\ \A id \in Ids : PrototypeRegistry_get(registry, id) = None

\* The registry was iterated while it held two entries, a named prototype
\* and a raw one.
C30_Witness ==
    /\ ret.op = "ids"
    /\ Len(ret.res.ids) = 2
    /\ ZeroHash \in DOMAIN registry
    /\ HashOf[Name_b] \in DOMAIN registry

====
